---- MODULE Spec2Model ----
(***************************************************************************)
(* Model of the sauna-reserve availability monitor: the watch cycle        *)
(* (watchScheduler), the Firestore documents it reads and writes, and the  *)
(* LINE commands that change the configuration between cycles.             *)
(*                                                                         *)
(* Time is counted in units of 1/UnitsPerMinute minute.  Dates are the     *)
(* integers yyyymmdd, which order exactly as the zero-padded YYYY-MM-DD    *)
(* strings of the code order under Array.prototype.sort.                   *)
(***************************************************************************)
EXTENDS Integers, Sequences, FiniteSets, TLC

\* ---- bounds of the model -------------------------------------------------
MaxTime == 4
UnitsPerMinute == 2
MaxInterval == 2

\* ---- finite input domains --------------------------------------------------
Dates == {20250115, 20250116}
SlotLists == {<<>>, <<1200>>}
Cycles == {1, 2}
SeqCycles == {1}
NoDate == 0

VARIABLES
  now,            \* Date.now()
  lineTarget,     \* document line/target
  watchConfig,    \* document watch/config
  watchState,     \* document watch/state
  cycle,          \* the local variables of each invocation of watchScheduler
  last,           \* history: what the cycle that last wrote watch/state evaluated
  periodAttempts, \* history: notification attempts since a fetch last saw no open
                  \* slot or the configured date set last changed
  reqDate,        \* one call of checkAvailability: its targetDate argument,
  served,         \* what the network and the site answer to its fetch,
  returned,       \* and how the call ends
  msg,            \* one LINE event: the words of its text,
  reply,          \* and the reply processEvent sends
  req,            \* one webhook request: what LINE, or anyone, posted,
  res,            \* and how lineWebhook answered it
  calls,          \* repeated detection: the results of the calls on one input,
  lastIndex,      \* and the lastIndex the latest call left in its day pattern
  poll            \* history: the latest invocation, taken as one step

\* the variables of a single call of checkAvailability, taken on its own
callVars == <<reqDate, served, returned>>

\* the variables of a single LINE event and of a single webhook request, each
\* taken on its own
eventVars == <<msg, reply, req, res>>

\* the variables of repeated calls of the detector
repeatVars == <<calls, lastIndex>>

vars == <<now, lineTarget, watchConfig, watchState, cycle, last, periodAttempts,
          callVars, eventVars, repeatVars, poll>>

\* ---- sequences and sets ----------------------------------------------------
Range(s) == {s[i] : i \in 1..Len(s)}

Contains(s, x) == \E i \in 1..Len(s) : s[i] = x

RECURSIVE Filter(_, _)
Filter(s, x) ==
  IF s = <<>> THEN <<>>
  ELSE IF Head(s) = x THEN Filter(Tail(s), x)
       ELSE <<Head(s)>> \o Filter(Tail(s), x)

RECURSIVE Insert(_, _)
Insert(s, x) ==
  IF s = <<>> THEN <<x>>
  ELSE IF x <= Head(s) THEN <<x>> \o s
       ELSE <<Head(s)>> \o Insert(Tail(s), x)

\* [...dates].sort(): ascending order, duplicates kept
RECURSIVE Sort(_)
Sort(s) == IF s = <<>> THEN <<>> ELSE Insert(Sort(Tail(s)), Head(s))

\* [...dates].sort().join(","): the sorted list; joining ten-character
\* YYYY-MM-DD strings with "," loses nothing, so the key is the sorted list.
DatesKey(dates) == Sort(dates)

\* parseMultipleDates results: non-empty sorted lists of distinct dates
DateLists == {s \in UNION {[1..n -> Dates] : n \in 1..Cardinality(Dates)} :
                 \A i, j \in 1..Len(s) : i < j => s[i] < s[j]}

\* ---- documents -------------------------------------------------------------
\* An absent optional field is 0 (intervalMinutes, lastNotifiedAt) or <<>>
\* (targetDates, checkedTargetDates): every reader of these fields goes through
\* `?? default`, `?.` or a truthiness test that treats both alike.
NoTarget == [exists |-> FALSE, userId |-> ""]

NoConfig == [exists |-> FALSE, enabled |-> FALSE, intervalMinutes |-> 0,
             targetDates |-> <<>>]

NoState == [exists |-> FALSE, has |-> FALSE, checkedAt |-> 0,
            lastNotifiedAt |-> 0, checkedTargetDates |-> <<>>]

setLineTarget(userId) == [exists |-> TRUE, userId |-> userId]

\* set(data) without merge: the fields not in data are gone
setWatchEnabled_NoMerge(config, enabled) ==
  [exists |-> TRUE, enabled |-> enabled, intervalMinutes |-> 0, targetDates |-> <<>>]

\* set({enabled, updatedAt}, {merge: true})
setWatchEnabled(config, enabled) ==
  [config EXCEPT !.exists = TRUE, !.enabled = enabled]

setIntervalMinutes(config, intervalMinutes) ==
  [config EXCEPT !.exists = TRUE, !.intervalMinutes = intervalMinutes]

ensureWatchConfig(config) ==
  IF config.exists THEN config
  ELSE [exists |-> TRUE, enabled |-> FALSE, intervalMinutes |-> 2,
        targetDates |-> <<>>]

addTargetDate(config, date) ==
  [config EXCEPT !.exists = TRUE,
                 !.targetDates = IF Contains(@, date) THEN @ ELSE Append(@, date)]

removeTargetDate(config, date) ==
  IF config.exists THEN [config EXCEPT !.targetDates = Filter(@, date)] ELSE config

clearTargetDates(config) ==
  IF config.exists THEN [config EXCEPT !.targetDates = <<>>] ELSE config

RECURSIVE addTargetDates(_, _)
addTargetDates(config, dates) ==
  IF dates = <<>> THEN config
  ELSE addTargetDates(addTargetDate(config, Head(dates)), Tail(dates))

\* set(data) without merge: a write that does not notify drops lastNotifiedAt
updateWatchState_NoMerge(state, has, notified, t) ==
  [exists |-> TRUE, has |-> has, checkedAt |-> t,
   lastNotifiedAt |-> IF notified THEN t ELSE 0, checkedTargetDates |-> <<>>]

\* set(data, {merge: true}) with data = {has, checkedAt, lastNotifiedAt?}:
\* the fields not in data, checkedTargetDates among them, keep their value.
updateWatchState(state, has, notified, t) ==
  [state EXCEPT !.exists = TRUE, !.has = has, !.checkedAt = t,
                !.lastNotifiedAt = IF notified THEN t ELSE @]

\* ---- the fetcher -----------------------------------------------------------
ErrorResult == [error |-> TRUE, hasAvailability |-> FALSE, timeSlots |-> <<>>]

\* The results one call of checkAvailability can return: a fetch error (a
\* non-success status or a transport failure), or the detector's verdict on the
\* page it fetched.  With no date filter the detector returns no time slots.
checkAvailability(targetDate) ==
  {ErrorResult} \cup
  {[error |-> FALSE, hasAvailability |-> FALSE, timeSlots |-> <<>>]} \cup
  {[error |-> FALSE, hasAvailability |-> TRUE, timeSlots |-> s] :
     s \in IF targetDate = NoDate THEN {<<>>} ELSE SlotLists}

\* ---- the target page ----------------------------------------------------------
\* A page is what the patterns of the detector can see of it, in document order:
\*   headers    the <th class="cl-day"> cells, each with the month and day of
\*              its "M/D" text;
\*   container  whether there is a <table class="cl-container">;
\*   rows       the <tr> rows of that table: the time of the cl-time cell
\*              (NoTime when the row has none) and the <td class="cl-day">
\*              cells, each with its glyph and whether the glyph sits inside a
\*              <div class="cl-day-content">;
\*   rest       the markup after the calendar, element by element: a day
\*              number (>15<), a glyph (>X<) or other markup, each with its
\*              length in characters.
\* Header texts and time labels hold no ">dd<", so day numbers occur in rest only.
MaxSize == 5
Window == 300
NoTime == 0

Labels == {[month |-> 1, day |-> 15], [month |-> 1, day |-> 16]}

TimeLabels == {1200, 1400}

Cells == {[glyph |-> g, content |-> TRUE] : g \in {"open", "limited", "closed", "none"}}
           \cup {[glyph |-> "open", content |-> FALSE]}

Tokens == {[kind |-> "day", day |-> d, glyph |-> "none", len |-> 13] : d \in {15, 16}}
            \cup {[kind |-> "glyph", day |-> 0, glyph |-> g, len |-> 14] :
                    g \in {"open", "limited", "closed"}}
            \cup {[kind |-> "pad", day |-> 0, glyph |-> "none", len |-> Window]}

Page(headers, container, rows, rest) ==
  [headers |-> headers, container |-> container, rows |-> rows, rest |-> rest]

EmptyMarkup == Page(<<>>, FALSE, <<>>, <<>>)

SeqsUpTo(S, n) == UNION {[1..k -> S] : k \in 0..n}

RowsOfWidth(k) ==
  {[time |-> t, cells |-> cs] : t \in TimeLabels \cup {NoTime}, cs \in [1..k -> Cells]}

\* the row sequences with at most n rows and cells together
RECURSIVE RowSeqs(_)
RowSeqs(n) ==
  {<<>>} \cup UNION {{<<r>> \o s : r \in RowsOfWidth(k), s \in RowSeqs(n - 1 - k)} :
                       k \in 0..(n - 1)}

RECURSIVE Weight(_)
Weight(rows) ==
  IF rows = <<>> THEN 0 ELSE 1 + Len(Head(rows).cells) + Weight(Tail(rows))

\* ---- the detector -------------------------------------------------------------
\* includes("●") || includes("▲")
IsMarker(glyph) == glyph \in {"open", "limited"}

\* targetDate.split("-").map((s) => parseInt(s, 10)): the year is dropped and
\* the zero padding of month and day is gone
MonthOf(targetDate) == (targetDate \div 100) % 100

DayOf(targetDate) == targetDate % 100

\* The index, from 0, of the first header cell whose text is `${month}/${day}`,
\* or -1.  The text of a header cell is formatted the same way, so two texts are
\* equal exactly when month and day are.
findDateColumnIndex(html, month, day) ==
  LET hits == {i \in 1..Len(html.headers) :
                 html.headers[i] = [month |-> month, day |-> day]}
  IN IF hits = {} THEN -1
     ELSE (CHOOSE i \in hits : \A j \in hits : i <= j) - 1

\* the cell at columnIndex + 1 is read: the column after the target date
SlotsOf_NextColumn(rows, columnIndex) ==
  LET hit(row) == /\ row.time # NoTime
                  /\ columnIndex + 1 < Len(row.cells)
                  /\ IsMarker(row.cells[columnIndex + 2].glyph)
      collect[n \in 0..Len(rows)] ==
        IF n = 0 THEN <<>>
        ELSE IF hit(rows[n]) THEN Append(collect[n - 1], rows[n].time)
             ELSE collect[n - 1]
  IN collect[Len(rows)]

\* the loop over the rows of the container: rows without a time are skipped,
\* the time of a row is pushed when its cell at columnIndex holds a marker
SlotsOf(rows, columnIndex) ==
  LET hit(row) == /\ row.time # NoTime
                  /\ columnIndex < Len(row.cells)
                  /\ IsMarker(row.cells[columnIndex + 1].glyph)
      collect[n \in 0..Len(rows)] ==
        IF n = 0 THEN <<>>
        ELSE IF hit(rows[n]) THEN Append(collect[n - 1], rows[n].time)
             ELSE collect[n - 1]
  IN collect[Len(rows)]

getColumnAvailableTimeSlots(html, columnIndex) ==
  IF ~html.container THEN <<>> ELSE SlotsOf(html.rows, columnIndex)

\* the characters from the start of element i to the start of element j
RECURSIVE Chars(_, _, _)
Chars(rest, i, j) == IF i >= j THEN 0 ELSE rest[i].len + Chars(rest, i + 1, j)

\* the search does not stop at the next day number
checkDayAvailabilityGeneric_PastNextDay(html, day) ==
  \E i \in 1..Len(html.rest) :
    /\ html.rest[i].kind = "day" /\ html.rest[i].day = day
    /\ \E j \in (i + 1)..Len(html.rest) :
         /\ html.rest[j].kind = "glyph" /\ IsMarker(html.rest[j].glyph)
         /\ Chars(html.rest, i, j) < Window

\* For some occurrence of >day<: a marker within the next Window characters
\* and before the next >dd<.
checkDayAvailabilityGeneric(html, day) ==
  \E i \in 1..Len(html.rest) :
    /\ html.rest[i].kind = "day" /\ html.rest[i].day = day
    /\ \E j \in (i + 1)..Len(html.rest) :
         /\ html.rest[j].kind = "glyph" /\ IsMarker(html.rest[j].glyph)
         /\ \A m \in (i + 1)..(j - 1) : html.rest[m].kind # "day"
         /\ Chars(html.rest, i, j) < Window

\* the whole page is scanned: a marker after the calendar counts as well
scanContainer_WholePage(html) ==
  \/ \E i \in 1..Len(html.rows) : \E k \in 1..Len(html.rows[i].cells) :
       IsMarker(html.rows[i].cells[k].glyph)
  \/ \E i \in 1..Len(html.rest) :
       html.rest[i].kind = "glyph" /\ IsMarker(html.rest[i].glyph)

\* the cl-day-content divs inside the container are scanned for a marker
scanContainer(html) ==
  \E i \in 1..Len(html.rows) : \E k \in 1..Len(html.rows[i].cells) :
    html.rows[i].cells[k].content /\ IsMarker(html.rows[i].cells[k].glyph)

\* html.includes(">●<") || html.includes(">▲<")
scanWholeText(html) ==
  \E i \in 1..Len(html.rest) :
    html.rest[i].kind = "glyph" /\ IsMarker(html.rest[i].glyph)

detectAvailabilityWithSlots(html, targetDate) ==
  IF targetDate = NoDate
    THEN [hasAvailability |-> IF html.container THEN scanContainer(html)
                              ELSE scanWholeText(html),
          timeSlots |-> <<>>]
    ELSE LET columnIndex ==
               findDateColumnIndex(html, MonthOf(targetDate), DayOf(targetDate))
             timeSlots == getColumnAvailableTimeSlots(html, columnIndex)
         IN IF columnIndex # -1
              THEN [hasAvailability |-> Len(timeSlots) > 0, timeSlots |-> timeSlots]
              ELSE [hasAvailability |-> checkDayAvailabilityGeneric(html, DayOf(targetDate)),
                    timeSlots |-> <<>>]

\* ---- one call of checkAvailability ----------------------------------------------
\* What the fetch meets: the promise of fetch rejects ("rejected"), or it
\* resolves with a status that is not ok ("status"), or the body cannot be read
\* ("truncated"), or the page arrives ("ok").
NoError == ""

Response(kind, html) == [kind |-> kind, html |-> html]

Pending == [status |-> "pending", value |-> <<>>]

Threw == [status |-> "threw", value |-> <<>>]

Returns(value) == [status |-> "returned", value |-> value]

\* the statements of the try block
TryBlock(response, targetDate) ==
  IF response.kind = "rejected" THEN Threw
  ELSE IF response.kind = "status"
    THEN Returns([hasAvailability |-> FALSE, timeSlots |-> <<>>, error |-> "HTTP"])
  ELSE IF response.kind = "truncated" THEN Threw
  ELSE LET result == detectAvailabilityWithSlots(response.html, targetDate)
       IN Returns([hasAvailability |-> result.hasAvailability,
                   timeSlots |-> result.timeSlots, error |-> NoError])

\* without the catch clause a rejected fetch rejects the call
checkAvailabilityOn_NoCatch(response, targetDate) == TryBlock(response, targetDate)

\* try { ... } catch (err) { return {false, [], error: `Fetch error: ...`} }
checkAvailabilityOn(response, targetDate) ==
  IF TryBlock(response, targetDate).status = "threw"
    THEN Returns([hasAvailability |-> FALSE, timeSlots |-> <<>>, error |-> "Fetch error"])
    ELSE TryBlock(response, targetDate)

\* ---- one invocation of watchScheduler ---------------------------------------
IdleCycle ==
  [pc |-> "idle", exit |-> "none", startTime |-> 0,
   cfgExists |-> FALSE, cfgEnabled |-> FALSE, cfgIntervalMinutes |-> 0,
   intervalMinutes |-> 0, targetDates |-> <<>>,
   state |-> NoState, idx |-> 1,
   hasAvailability |-> FALSE, availableSlotsMap |-> <<>>,
   hadAvailability |-> FALSE, shouldNotify |-> FALSE,
   results |-> <<>>, fetches |-> 0, pushes |-> 0, pushFailed |-> FALSE,
   writes |-> 0]

NoLast == [done |-> FALSE, dates |-> <<>>, merged |-> FALSE, attempted |-> FALSE,
           pushFailed |-> FALSE, writeTime |-> 0]

\* The invocation returns.  Its locals are gone; what stays for the record is
\* why it returned, how often it read the page, pushed and wrote, and, when it
\* returned without writing, what it had read on the way to that return.
Exit(rec, why) ==
  [IdleCycle EXCEPT
     !.exit = why, !.fetches = rec.fetches, !.pushes = rec.pushes,
     !.writes = rec.writes,
     !.startTime = IF why = "interval" THEN rec.startTime ELSE 0,
     !.intervalMinutes = IF why = "interval" THEN rec.intervalMinutes ELSE 0,
     !.cfgIntervalMinutes = IF why = "interval" THEN rec.cfgIntervalMinutes ELSE 0,
     !.targetDates = IF why = "fetcherror" THEN rec.targetDates ELSE <<>>,
     !.state = IF why \in {"interval", "fetcherror"} THEN rec.state ELSE NoState]

\* the gate tests only that the document exists
MonitoringDisabled_NoFlag(config) == ~config.exists

\* !config?.enabled
MonitoringDisabled(config) == ~(config.exists /\ config.enabled)

\* config.intervalMinutes ?? 2
IntervalOf(config) == IF config.intervalMinutes = 0 THEN 2 ELSE config.intervalMinutes

\* the gate compares against intervalMinutes, without the half-minute tolerance
IntervalNotReached_NoTolerance(state, startTime, intervalMinutes) ==
  /\ state.exists
  /\ state.checkedAt # 0
  /\ 2 * (startTime - state.checkedAt) < UnitsPerMinute * (2 * intervalMinutes)

\* state?.checkedAt && (startTime - state.checkedAt) / 60000 < intervalMinutes - 0.5
IntervalNotReached(state, startTime, intervalMinutes) ==
  /\ state.exists
  /\ state.checkedAt # 0
  /\ 2 * (startTime - state.checkedAt) < UnitsPerMinute * (2 * intervalMinutes - 1)

\* the gate is missing: the cycle goes on without a recipient
NoRecipient_Never(target) == FALSE

\* !target?.userId
NoRecipient(target) == ~(target.exists /\ target.userId # "")

\* availableSlotsMap.set(targetDate, result.timeSlots)
MapSet(map, key, value) ==
  IF \E i \in 1..Len(map) : map[i].date = key
    THEN [i \in 1..Len(map) |->
            IF map[i].date = key THEN [date |-> key, slots |-> value] ELSE map[i]]
    ELSE Append(map, [date |-> key, slots |-> value])

\* the loop assigns each verdict instead of accumulating them
LoopBody_Overwrite(rec, targetDate, result) ==
  IF result.error THEN rec
  ELSE [rec EXCEPT !.hasAvailability = result.hasAvailability,
                   !.availableSlotsMap =
                      IF result.hasAvailability
                        THEN MapSet(@, targetDate, result.timeSlots) ELSE @]

\* every date whose fetch succeeded is put into the map, available or not
LoopBody_ListsAll(rec, targetDate, result) ==
  IF result.error THEN rec
  ELSE [rec EXCEPT !.hasAvailability = @ \/ result.hasAvailability,
                   !.availableSlotsMap = MapSet(@, targetDate, result.timeSlots)]

\* the body of the for loop over targetDates for one result
LoopBody(rec, targetDate, result) ==
  IF result.error THEN rec
  ELSE IF result.hasAvailability
    THEN [rec EXCEPT !.hasAvailability = TRUE,
                     !.availableSlotsMap = MapSet(@, targetDate, result.timeSlots)]
    ELSE rec

\* the loop stays on a date whose fetch failed and reads it again
NextIndex_RetryOnError(idx, result) == IF result.error THEN idx ELSE idx + 1

\* for (const targetDate of targetDates): the next date, whatever the result
NextIndex(idx, result) == idx + 1

\* prevDatesKey !== currDatesKey
TargetDatesChanged(previousTargetDates, currentTargetDates) ==
  DatesKey(previousTargetDates) # DatesKey(currentTargetDates)

\* the stored value is used whether or not the target dates changed
HadAvailability_NoReset(state, currentTargetDates) == state.exists /\ state.has

\* targetDatesChanged ? false : (state?.has ?? false)
HadAvailability(state, currentTargetDates) ==
  IF TargetDatesChanged(state.checkedTargetDates, currentTargetDates)
    THEN FALSE
    ELSE state.exists /\ state.has

\* the negation is missing: hadAvailability && hasAvailability
ShouldNotify_NoNegation(hadAvailability, hasAvailability) ==
  hadAvailability /\ hasAvailability

\* !hadAvailability && hasAvailability
ShouldNotify(hadAvailability, hasAvailability) == ~hadAvailability /\ hasAvailability

\* ---- the notification message ---------------------------------------------------
\* A message is what it says: the generic sentence, or the list of its dates,
\* each as the year, month and day of `${year}年${month}月${day}日` and the time
\* slots of slots.join(", ").
NoMessage == [kind |-> "none", entries |-> <<>>]

\* date.split("-"), parseInt(month, 10), parseInt(day, 10)
FormatEntry(entry) ==
  [year |-> entry.date \div 10000, month |-> MonthOf(entry.date),
   day |-> DayOf(entry.date), slots |-> entry.slots]

\* dateInfo: the entries of availableSlotsMap in the order of insertion, or
\* the generic sentence when the map is empty
Message(availableSlotsMap) ==
  IF Len(availableSlotsMap) > 0
    THEN [kind |-> "dates",
          entries |-> [i \in 1..Len(availableSlotsMap) |->
                         FormatEntry(availableSlotsMap[i])]]
    ELSE [kind |-> "generic", entries |-> <<>>]

\* Steps 4 and 5, which run without suspension after the last fetch
Decide(rec) ==
  LET had == HadAvailability(rec.state, rec.targetDates)
      notify == ShouldNotify(had, rec.hasAvailability)
  IN [rec EXCEPT !.hadAvailability = had, !.shouldNotify = notify,
                 !.pc = IF notify THEN "pushMessage" ELSE "updateWatchState"]

\* ---- availability periods (history) ----------------------------------------
Monitored(config) == Range(config.targetDates)

\* a fetch that succeeds and finds no open slot ends the period
SawNoSlot(result) == ~result.error /\ ~result.hasAvailability

\* ---- the operations taken on their own, before any of them has run -----------
NoPoll == [exit |-> "none", startedAt |-> 0, before |-> NoState, asked |-> <<>>,
           merged |-> FALSE, slots |-> <<>>, notify |-> FALSE, pushes |-> 0,
           message |-> NoMessage, faultAt |-> "none", retry |-> 0,
           contactAt |-> 0, prevContactAt |-> 0]

NoRequest ==
  [method |-> "none", signature |-> [kind |-> "absent", value |-> <<>>],
   events |-> <<>>]

NoResponse == [status |-> "none", replies |-> 0]

NothingRun ==
  /\ msg = <<>>
  /\ reply = "none"
  /\ req = NoRequest
  /\ res = NoResponse
  /\ calls = <<>>
  /\ lastIndex = 0
  /\ poll = NoPoll

\* ---- initial state: an empty store, no invocation running -------------------
Init ==
  /\ now = 1
  /\ lineTarget = NoTarget
  /\ watchConfig = NoConfig
  /\ watchState = NoState
  /\ cycle = [c \in Cycles |-> IdleCycle]
  /\ last = NoLast
  /\ periodAttempts = 0
  /\ NothingRun
  /\ reqDate = NoDate
  /\ served = Response("ok", EmptyMarkup)
  /\ returned = Pending

\* ---- environment ------------------------------------------------------------
Tick ==
  /\ now < MaxTime
  /\ now' = now + 1
  /\ UNCHANGED <<callVars, eventVars, repeatVars, poll, lineTarget, watchConfig, watchState, cycle, last,
               periodAttempts>>

\* ---- LINE commands (processEvent) -------------------------------------------
\* the command also deletes what the last cycle stored
ConfigWrite_ResetsState(config) ==
  /\ watchConfig' = config
  /\ watchState' = NoState
  /\ periodAttempts' =
       IF Monitored(config) = Monitored(watchConfig) THEN periodAttempts ELSE 0
  /\ UNCHANGED <<callVars, eventVars, repeatVars, poll, now, cycle, last>>

\* a command that changes the configured date set starts a new period
ConfigWrite(config) ==
  /\ watchConfig' = config
  /\ periodAttempts' =
       IF Monitored(config) = Monitored(watchConfig) THEN periodAttempts ELSE 0
  /\ UNCHANGED <<callVars, eventVars, repeatVars, poll, now, watchState, cycle, last>>

CmdRegister ==
  /\ lineTarget' = setLineTarget("U1")
  /\ ConfigWrite(ensureWatchConfig(watchConfig))

CmdEnable ==
  /\ ConfigWrite(setWatchEnabled(watchConfig, TRUE))
  /\ UNCHANGED lineTarget

CmdDisable ==
  /\ ConfigWrite(setWatchEnabled(watchConfig, FALSE))
  /\ UNCHANGED lineTarget

CmdInterval ==
  \E minutes \in 1..MaxInterval :
    /\ ConfigWrite(setIntervalMinutes(watchConfig, minutes))
    /\ UNCHANGED lineTarget

CmdAddDates ==
  \E parsedDates \in DateLists :
    /\ ConfigWrite(addTargetDates(watchConfig, parsedDates))
    /\ UNCHANGED lineTarget

CmdRemoveDate ==
  \E parsedDate \in Dates :
    /\ ConfigWrite(removeTargetDate(watchConfig, parsedDate))
    /\ UNCHANGED lineTarget

CmdClear ==
  /\ ConfigWrite(clearTargetDates(watchConfig))
  /\ UNCHANGED lineTarget

\* ---- the watch cycle, one action per suspension point -----------------------
\* the timer fires; in Spec an invocation starts only when none is running
StartCycle(c) ==
  /\ \A d \in Cycles : cycle[d].pc = "idle"
  /\ cycle' = [cycle EXCEPT ![c] =
                 [IdleCycle EXCEPT !.pc = "getWatchConfig", !.startTime = now]]
  /\ UNCHANGED <<callVars, eventVars, repeatVars, poll, now, lineTarget, watchConfig, watchState, last,
               periodAttempts>>

\* Step 1
GetWatchConfig(c) ==
  /\ cycle[c].pc = "getWatchConfig"
  /\ cycle' = [cycle EXCEPT ![c] =
       IF MonitoringDisabled(watchConfig)
         THEN Exit(@, "disabled")
         ELSE [@ EXCEPT !.pc = "getWatchState",
                        !.cfgExists = watchConfig.exists,
                        !.cfgEnabled = watchConfig.enabled,
                        !.cfgIntervalMinutes = watchConfig.intervalMinutes,
                        !.intervalMinutes = IntervalOf(watchConfig),
                        !.targetDates = watchConfig.targetDates]]
  /\ UNCHANGED <<callVars, eventVars, repeatVars, poll, now, lineTarget, watchConfig, watchState, last,
               periodAttempts>>

\* Step 1.5
GetWatchState(c) ==
  /\ cycle[c].pc = "getWatchState"
  /\ cycle' = [cycle EXCEPT ![c] =
       IF IntervalNotReached(watchState, @.startTime, @.intervalMinutes)
         THEN Exit([@ EXCEPT !.state = watchState], "interval")
         ELSE [@ EXCEPT !.pc = "getLineTarget", !.state = watchState]]
  /\ UNCHANGED <<callVars, eventVars, repeatVars, poll, now, lineTarget, watchConfig, watchState, last,
               periodAttempts>>

\* Step 2
GetLineTarget(c) ==
  /\ cycle[c].pc = "getLineTarget"
  /\ cycle' = [cycle EXCEPT ![c] =
       IF NoRecipient(lineTarget)
         THEN Exit(@, "norecipient")
         ELSE [@ EXCEPT !.pc = IF Len(cycle[c].targetDates) > 0 THEN "fetchDate"
                               ELSE "fetchAll",
                        \* read again only by the duration log and not at all
                        !.startTime = 0, !.intervalMinutes = 0,
                        !.cfgIntervalMinutes = 0]]
  /\ UNCHANGED <<callVars, eventVars, repeatVars, poll, now, lineTarget, watchConfig, watchState, last,
               periodAttempts>>

\* Step 3, one iteration of the loop over targetDates; the last iteration runs
\* on into steps 4 and 5
FetchDate(c) ==
  /\ cycle[c].pc = "fetchDate"
  /\ \E result \in checkAvailability(cycle[c].targetDates[cycle[c].idx]) :
       LET rec == cycle[c]
           targetDate == rec.targetDates[rec.idx]
           merged == LoopBody(rec, targetDate, result)
           next == [merged EXCEPT
                      !.idx = NextIndex(@, result), !.fetches = @ + 1,
                      !.results = Append(@, [date |-> targetDate,
                                             error |-> result.error,
                                             hasAvailability |-> result.hasAvailability])]
       IN /\ cycle' = [cycle EXCEPT ![c] =
                         IF next.idx > Len(rec.targetDates) THEN Decide(next) ELSE next]
          /\ periodAttempts' = IF SawNoSlot(result) THEN 0 ELSE periodAttempts
  /\ UNCHANGED <<callVars, eventVars, repeatVars, poll, now, lineTarget, watchConfig, watchState, last>>

\* a fetch error with no date filter is treated as "no availability"
NoFilterAbort_Never(result) == FALSE

\* a fetch error with no date filter ends the invocation
NoFilterAbort(result) == result.error

\* Step 3 with no date filter, running on into steps 4 and 5
FetchAll(c) ==
  /\ cycle[c].pc = "fetchAll"
  /\ \E result \in checkAvailability(NoDate) :
       LET rec == [cycle[c] EXCEPT
                     !.fetches = @ + 1,
                     !.results = Append(@, [date |-> NoDate, error |-> result.error,
                                            hasAvailability |-> result.hasAvailability])]
       IN /\ cycle' = [cycle EXCEPT ![c] =
                         IF NoFilterAbort(result)
                           THEN Exit(rec, "fetcherror")
                           ELSE Decide([rec EXCEPT
                                          !.hasAvailability = result.hasAvailability])]
          /\ periodAttempts' = IF SawNoSlot(result) THEN 0 ELSE periodAttempts
  /\ UNCHANGED <<callVars, eventVars, repeatVars, poll, now, lineTarget, watchConfig, watchState, last>>

\* the invocation returns after the notification attempt, without the write
PushMessage_Returns(c) ==
  /\ cycle[c].pc = "pushMessage"
  /\ \E delivered \in BOOLEAN :
       cycle' = [cycle EXCEPT ![c] =
                   Exit([@ EXCEPT !.pushes = @ + 1, !.pushFailed = ~delivered],
                        "completed")]
  /\ periodAttempts' = periodAttempts + 1
  /\ UNCHANGED <<callVars, eventVars, repeatVars, poll, now, lineTarget, watchConfig, watchState, last>>

\* the notification attempt: pushMessage resolves or throws, and the throw is
\* caught and logged
PushMessage(c) ==
  /\ cycle[c].pc = "pushMessage"
  /\ \E delivered \in BOOLEAN :
       cycle' = [cycle EXCEPT ![c] =
                   [@ EXCEPT !.pc = "updateWatchState", !.pushes = @ + 1,
                             !.pushFailed = ~delivered]]
  /\ periodAttempts' = periodAttempts + 1
  /\ UNCHANGED <<callVars, eventVars, repeatVars, poll, now, lineTarget, watchConfig, watchState, last>>

\* Step 6: updateWatchState(hasAvailability, shouldNotify, currentTargetDates);
\* the callee has two parameters, the third argument is dropped
UpdateWatchState(c) ==
  /\ cycle[c].pc = "updateWatchState"
  /\ watchState' = updateWatchState(watchState, cycle[c].hasAvailability,
                                    cycle[c].shouldNotify, now)
  /\ last' = [done |-> TRUE, dates |-> cycle[c].targetDates,
              merged |-> cycle[c].hasAvailability,
              attempted |-> (cycle[c].pushes > 0),
              pushFailed |-> cycle[c].pushFailed,
              writeTime |-> now]
  /\ cycle' = [cycle EXCEPT ![c] = Exit([@ EXCEPT !.writes = @ + 1], "completed")]
  /\ UNCHANGED <<callVars, eventVars, repeatVars, poll, now, lineTarget, watchConfig, periodAttempts>>

Next ==
  \/ Tick
  \/ CmdRegister
  \/ CmdEnable
  \/ CmdDisable
  \/ CmdInterval
  \/ CmdAddDates
  \/ CmdRemoveDate
  \/ CmdClear
  \/ \E c \in SeqCycles : StartCycle(c)
  \/ \E c \in SeqCycles : GetWatchConfig(c)
  \/ \E c \in SeqCycles : GetWatchState(c)
  \/ \E c \in SeqCycles : GetLineTarget(c)
  \/ \E c \in SeqCycles : FetchDate(c)
  \/ \E c \in SeqCycles : FetchAll(c)
  \/ \E c \in SeqCycles : PushMessage(c)
  \/ \E c \in SeqCycles : UpdateWatchState(c)

Spec == Init /\ [][Next]_vars

TypeOK ==
  /\ now \in 1..MaxTime
  /\ watchState.checkedAt \in 0..MaxTime
  /\ \A c \in Cycles : cycle[c].pushes \in 0..1 /\ cycle[c].writes \in 0..1

\* ---- vocabulary of the properties -------------------------------------------
\* the invocation has passed the three gates and taken the notification decision
Decided(c) == cycle[c].pc \in {"pushMessage", "updateWatchState"}

\* the invocation attempts, or has attempted, a notification
Attempts(c) == cycle[c].pc = "pushMessage" \/ cycle[c].pushes > 0

\* the invocation changed nothing outside itself
NoEffects(c) == cycle[c].fetches = 0 /\ cycle[c].pushes = 0 /\ cycle[c].writes = 0

\* the date set the invocation evaluates is the one the last writer evaluated
SameDateSet(c) == last.done => Range(last.dates) = Range(cycle[c].targetDates)

\* the stored hasAvailability, false when watch/state does not exist
StoredHas == watchState.exists /\ watchState.has

\* C1: with an unchanged date set, a cycle that passed all gates attempts a
\* notification exactly on a rising edge: stored hasAvailability false (or no
\* watch/state) and merged verdict true.
C1_RisingEdgeOnly ==
  \A c \in Cycles :
    (Decided(c) /\ cycle[c].pushes = 0 /\ SameDateSet(c))
      => (Attempts(c) <=> (~StoredHas /\ cycle[c].hasAvailability))

\* C2: while no fetch sees the availability gone and the date set does not
\* change, at most one notification attempt is made.
C2_NoRenotification == periodAttempts <= 1

\* C3: a cycle that reads no watch/config, or one with enabled = false, returns
\* at once: it never reaches a step that fetches, pushes or writes.
C3_DisabledNoEffects ==
  \A c \in Cycles :
    /\ cycle[c].pc \notin {"idle", "getWatchConfig"}
         => cycle[c].cfgExists /\ cycle[c].cfgEnabled
    /\ cycle[c].exit = "disabled" => NoEffects(c)
    /\ ~NoEffects(c) => cycle[c].pc \in {"fetchDate", "pushMessage", "updateWatchState"}
                        \/ cycle[c].exit \in {"fetcherror", "completed"}

\* a cycle returned at the enabled gate although a recipient is registered and
\* an earlier cycle had written watch/state
C3_Witness ==
  \E c \in Cycles :
    /\ cycle[c].exit = "disabled" /\ cycle[c].pc = "idle"
    /\ watchConfig.exists /\ ~watchConfig.enabled
    /\ lineTarget.exists /\ watchState.exists

\* elapsed minutes < intervalMinutes - 0.5 for what the invocation read, with
\* intervalMinutes 2 when the document has none
TooSoon(c) ==
  LET interval == IF cycle[c].cfgIntervalMinutes = 0 THEN 2
                  ELSE cycle[c].cfgIntervalMinutes
      elapsed == cycle[c].startTime - cycle[c].state.checkedAt
  IN /\ cycle[c].state.exists
     /\ 2 * elapsed < UnitsPerMinute * (2 * interval - 1)

\* C4: the interval gate returns, with no fetch, push or write, exactly when
\* watch/state exists and less than intervalMinutes - 0.5 minutes elapsed
\* between checkedAt and the start of the cycle; otherwise the cycle goes on.
C4_IntervalGate ==
  \A c \in Cycles :
    /\ cycle[c].exit = "interval"
         => TooSoon(c) /\ NoEffects(c) /\ watchState = cycle[c].state
    /\ cycle[c].pc = "getLineTarget" => ~TooSoon(c)

\* a cycle started after checkedAt and was still turned away by the gate
C4_Witness ==
  \E c \in Cycles :
    /\ cycle[c].exit = "interval" /\ cycle[c].pc = "idle"
    /\ cycle[c].startTime > cycle[c].state.checkedAt
    /\ watchState.exists

\* C5: the previous hasAvailability used by the decision is false when the
\* configured date set differs, as a set, from the stored checkedTargetDates,
\* and is the stored value when the two are equal; after a drift an observed
\* availability is notified whatever the stored value.
C5_DriftReset ==
  \A c \in Cycles :
    Decided(c) =>
      LET drift == Range(cycle[c].targetDates)
                     # Range(cycle[c].state.checkedTargetDates)
      IN /\ cycle[c].hadAvailability
              = (IF drift THEN FALSE
                 ELSE cycle[c].state.exists /\ cycle[c].state.has)
         /\ (drift /\ cycle[c].hasAvailability) => Attempts(c)

\* the stored hasAvailability was true, the date sets differ, and the cycle notifies
C5_Witness ==
  \E c \in Cycles :
    /\ cycle[c].pc = "pushMessage"
    /\ cycle[c].state.exists /\ cycle[c].state.has
    /\ Range(cycle[c].targetDates) # Range(cycle[c].state.checkedTargetDates)

\* C6: with no date filter a fetch error ends the cycle: no notification, no
\* write, watch/state as the cycle found it.
C6_NoFilterErrorAborts ==
  \A c \in Cycles :
    /\ cycle[c].exit = "fetcherror"
         => cycle[c].pushes = 0 /\ cycle[c].writes = 0 /\ watchState = cycle[c].state
    /\ (Decided(c) /\ cycle[c].targetDates = <<>>)
         => \A i \in 1..Len(cycle[c].results) : ~cycle[c].results[i].error

\* a failed unfiltered fetch left a stored hasAvailability = true in place
C6_Witness ==
  \E c \in Cycles :
    /\ cycle[c].exit = "fetcherror" /\ cycle[c].pc = "idle"
    /\ cycle[c].targetDates = <<>> /\ cycle[c].fetches = 1
    /\ watchState.exists /\ watchState.has

\* the first n configured dates were fetched, one read each, in order
FetchedInOrder(c, n) ==
  /\ Len(cycle[c].results) = n
  /\ cycle[c].fetches = n
  /\ \A i \in 1..n : cycle[c].results[i].date = cycle[c].targetDates[i]

\* OR over the fetches that returned no error
MergedVerdict(c) ==
  \E i \in 1..Len(cycle[c].results) :
    ~cycle[c].results[i].error /\ cycle[c].results[i].hasAvailability

\* C7: with a date filter a fetch error skips that date only: every date is
\* fetched, the merged verdict is the OR over the dates fetched without error,
\* and the cycle reaches the decision and the write.
C7_DateErrorSkipped ==
  \A c \in Cycles :
    /\ cycle[c].exit = "fetcherror" => cycle[c].targetDates = <<>>
    /\ cycle[c].pc = "fetchDate"
         => /\ FetchedInOrder(c, cycle[c].idx - 1)
            /\ cycle[c].hasAvailability <=> MergedVerdict(c)
    /\ (Decided(c) /\ cycle[c].targetDates # <<>>)
         => /\ FetchedInOrder(c, Len(cycle[c].targetDates))
            /\ cycle[c].hasAvailability <=> MergedVerdict(c)
    /\ cycle[c].exit = "completed" => cycle[c].writes = 1

\* the first date failed, the second was still fetched and found open, and the
\* cycle has notified and is about to write
C7_Witness ==
  \E c \in Cycles :
    /\ cycle[c].pc = "updateWatchState" /\ cycle[c].pushes = 1
    /\ Len(cycle[c].results) = 2
    /\ cycle[c].results[1].error
    /\ cycle[c].results[2].hasAvailability
    /\ cycle[c].hasAvailability

\* C8: a failed push still persists the state of the cycle (hasAvailability =
\* true, checkedAt and lastNotifiedAt; the stored date set is the subject of
\* C9), so that the next cycle that observes availability with the same date
\* set does not notify again.
C8_FailedPushNotRepeated ==
  /\ (last.done /\ last.pushFailed)
       => /\ watchState.has
          /\ watchState.checkedAt = last.writeTime
          /\ watchState.lastNotifiedAt = last.writeTime
  /\ \A c \in Cycles :
       (last.done /\ last.pushFailed /\ Decided(c) /\ SameDateSet(c)
          /\ cycle[c].hasAvailability)
         => ~Attempts(c)

\* C9: whenever watch/state exists, checkedTargetDates is the date set
\* evaluated by the cycle that last wrote hasAvailability, and hasAvailability
\* is that cycle's merged verdict.
C9_CheckedDatesAreEvaluatedDates ==
  watchState.exists
    => /\ Range(watchState.checkedTargetDates) = Range(last.dates)
       /\ watchState.has = last.merged

\* C10: the write of a completed cycle sets lastNotifiedAt to the write time
\* if and only if the cycle attempted a notification, and otherwise leaves the
\* stored lastNotifiedAt as it was; hasAvailability and checkedAt are
\* overwritten either way.
C10_LastNotifiedAt ==
  /\ [](last.done => /\ watchState.exists
                     /\ watchState.checkedAt = last.writeTime
                     /\ watchState.has = last.merged
                     /\ (watchState.lastNotifiedAt = last.writeTime) <=> last.attempted)
  /\ [][\A c \in Cycles :
          (cycle[c].pc = "updateWatchState" /\ cycle'[c].pc = "idle")
            => /\ watchState'.lastNotifiedAt
                    = IF cycle[c].pushes > 0 THEN now ELSE watchState.lastNotifiedAt
               /\ watchState'.has = cycle[c].hasAvailability
               /\ watchState'.checkedAt = now]_vars

\* a completed cycle made no attempt and the lastNotifiedAt of an earlier
\* cycle is still stored next to its newer checkedAt
C10_Witness ==
  /\ last.done /\ ~last.attempted
  /\ watchState.lastNotifiedAt # 0
  /\ watchState.lastNotifiedAt < watchState.checkedAt

\* the recipient document holds a user id
Registered == lineTarget.exists /\ lineTarget.userId # ""

\* C11: a cycle that finds no registered recipient returns at the recipient
\* gate with no fetch, no push and no write; only a cycle that read a
\* registered recipient reaches a step that contacts the target page, pushes
\* or writes watch/state.
C11_RecipientGate ==
  /\ \A c \in Cycles :
       /\ cycle[c].exit = "norecipient" => NoEffects(c)
       /\ cycle[c].pc \in {"fetchDate", "fetchAll", "pushMessage", "updateWatchState"}
            => Registered
       /\ ~NoEffects(c) => Registered
  /\ ~Registered => ~watchState.exists /\ ~last.done

\* monitoring is enabled with a date configured, nobody is registered, and the
\* cycle returned at the recipient gate
C11_Witness ==
  \E c \in Cycles :
    /\ cycle[c].exit = "norecipient" /\ cycle[c].pc = "idle"
    /\ ~Registered
    /\ watchConfig.enabled /\ watchConfig.targetDates # <<>>

\* C13: after a completed cycle recorded no availability, the next cycle that
\* passes the gates with the same date set and observes availability attempts
\* a notification, whether or not an earlier period was already notified.
C13_ReappearanceNotified ==
  \A c \in Cycles :
    (Decided(c) /\ last.done /\ ~last.merged /\ SameDateSet(c)
       /\ cycle[c].hasAvailability)
      => /\ Attempts(c)
         /\ ~StoredHas

\* an earlier period was notified, the last completed cycle recorded no
\* availability, and the current cycle sees availability again and notifies
C13_Witness ==
  \E c \in Cycles :
    /\ cycle[c].pc = "pushMessage"
    /\ last.done /\ ~last.merged /\ SameDateSet(c)
    /\ watchState.lastNotifiedAt # 0
    /\ cycle[c].state.lastNotifiedAt # 0

\* the number of target-page reads of a cycle that evaluated the date list dates
ReadsFor(dates) == IF dates = <<>> THEN 1 ELSE Len(dates)

\* C14: a cycle that passed the three gates reads the target page once per
\* configured date, in order, or once with no date when the date set is empty;
\* a read that failed is in that count and is not repeated.
C14_OneReadPerDate ==
  \A c \in Cycles :
    /\ Decided(c)
         => /\ cycle[c].fetches = ReadsFor(cycle[c].targetDates)
            /\ Len(cycle[c].results) = cycle[c].fetches
            /\ \A i \in 1..Len(cycle[c].results) :
                 cycle[c].results[i].date
                   = IF cycle[c].targetDates = <<>> THEN NoDate
                     ELSE cycle[c].targetDates[i]
    /\ cycle[c].pc = "fetchDate" => cycle[c].fetches < Len(cycle[c].targetDates)
    /\ cycle[c].exit = "fetcherror" => cycle[c].fetches = 1
    /\ (cycle[c].exit = "completed" /\ cycle[c].pc = "idle")
         => cycle[c].fetches = ReadsFor(last.dates)

\* both reads of a two-date cycle failed and the cycle still went on to the
\* decision with two reads made
C14_Witness ==
  \E c \in Cycles :
    /\ cycle[c].pc = "updateWatchState"
    /\ Len(cycle[c].targetDates) = 2 /\ cycle[c].fetches = 2
    /\ \A i \in 1..2 : cycle[c].results[i].error

\* ---- overlapping invocations ---------------------------------------------------
\* The store after the commands "register" and "monitoring on": a recipient,
\* monitoring enabled, the default interval and no date filter.
InitOverlap ==
  /\ now = 1
  /\ lineTarget = setLineTarget("U1")
  /\ watchConfig = setWatchEnabled(ensureWatchConfig(NoConfig), TRUE)
  /\ watchState = NoState
  /\ cycle = [c \in Cycles |-> IdleCycle]
  /\ last = NoLast
  /\ periodAttempts = 0
  /\ NothingRun
  /\ reqDate = NoDate
  /\ served = Response("ok", EmptyMarkup)
  /\ returned = Pending

\* the timer fires while the other invocation may still be running: the
\* scheduler takes no lock and the function keeps no instance limit
StartOverlapping(c) ==
  /\ cycle[c].pc = "idle"
  /\ cycle' = [cycle EXCEPT ![c] =
                 [IdleCycle EXCEPT !.pc = "getWatchConfig", !.startTime = now]]
  /\ UNCHANGED <<callVars, eventVars, repeatVars, poll, now, lineTarget, watchConfig, watchState, last,
               periodAttempts>>

NextOverlap ==
  \/ Tick
  \/ \E c \in Cycles : StartOverlapping(c)
  \/ \E c \in Cycles : GetWatchConfig(c)
  \/ \E c \in Cycles : GetWatchState(c)
  \/ \E c \in Cycles : GetLineTarget(c)
  \/ \E c \in Cycles : FetchAll(c)
  \/ \E c \in Cycles : PushMessage(c)
  \/ \E c \in Cycles : UpdateWatchState(c)

SpecOverlap == InitOverlap /\ [][NextOverlap]_vars

\* C12: two overlapping cycles do not both attempt a notification for the same
\* rising edge: while one cycle has attempted and not yet written its state,
\* no other cycle that read the same stored state is at the notification step.
C12_OverlapOneAttempt ==
  \A c, d \in Cycles :
    (c # d /\ cycle[c].pc = "updateWatchState" /\ cycle[c].pushes = 1
       /\ cycle[d].state = cycle[c].state)
      => cycle[d].pc # "pushMessage"

\* ---- a call of checkAvailability on its own -------------------------------------
InitFetch ==
  /\ now = 1
  /\ lineTarget = NoTarget
  /\ watchConfig = NoConfig
  /\ watchState = NoState
  /\ cycle = [c \in Cycles |-> IdleCycle]
  /\ last = NoLast
  /\ periodAttempts = 0
  /\ NothingRun
  \* every page with at most MaxSize header cells, rows, cells and elements
  \* together, or a fetch that fails
  /\ \/ \E k \in {"rejected", "status", "truncated"} :
          served = Response(k, EmptyMarkup)
     \/ \E h \in SeqsUpTo(Labels, MaxSize) :
          \E t \in SeqsUpTo(Tokens, MaxSize - Len(h)) :
            served = Response("ok", Page(h, FALSE, <<>>, t))
     \/ \E r \in RowSeqs(MaxSize) :
          \E h \in SeqsUpTo(Labels, MaxSize - Weight(r)) :
            \E t \in SeqsUpTo(Tokens, MaxSize - Weight(r) - Len(h)) :
              served = Response("ok", Page(h, TRUE, r, t))
  /\ reqDate \in {NoDate} \cup Dates
  /\ returned = Pending

CheckAvailability ==
  /\ returned = Pending
  /\ returned' = checkAvailabilityOn(served, reqDate)
  /\ UNCHANGED <<now, lineTarget, watchConfig, watchState, cycle, last,
                 periodAttempts, reqDate, served, eventVars, repeatVars, poll>>

NextFetch == CheckAvailability

SpecFetch == InitFetch /\ [][NextFetch]_vars

\* ---- vocabulary of the properties of a call -----------------------------------
\* the call has ended
Called == returned.status # "pending"

\* the page arrived and the call returned what it made of it
Detected == served.kind = "ok" /\ returned.status = "returned"

\* the text of header cell i is the month/day of the requested date
HeaderMatches(i) ==
  /\ served.html.headers[i].month = MonthOf(reqDate)
  /\ served.html.headers[i].day = DayOf(reqDate)

\* the page has a date-header row and the requested date is in none of its cells
DateNotInHeader ==
  /\ reqDate # NoDate
  /\ served.html.headers # <<>>
  /\ \A i \in 1..Len(served.html.headers) : ~HeaderMatches(i)

\* C15: checkAvailability always returns.  When the fetch rejects, answers with
\* a status that is not ok or the body cannot be read, the result has an error
\* text, hasAvailability = false and no time slots; when the page arrives the
\* result is the verdict of the detector with no error.
C15_NeverThrows ==
  Called =>
    /\ returned.status = "returned"
    /\ served.kind # "ok"
         => /\ returned.value.error # NoError
            /\ ~returned.value.hasAvailability
            /\ returned.value.timeSlots = <<>>
    /\ served.kind = "ok"
         => /\ returned.value.error = NoError
            /\ returned.value.hasAvailability
                 = detectAvailabilityWithSlots(served.html, reqDate).hasAvailability
            /\ returned.value.timeSlots
                 = detectAvailabilityWithSlots(served.html, reqDate).timeSlots

\* the fetch rejected and the call returned an error result all the same
C15_Witness ==
  /\ served.kind = "rejected"
  /\ returned.status = "returned"
  /\ returned.value.error = "Fetch error"

\* C16: when the month/day of the target date is the text of no cell of the
\* date-header row, the verdict is hasAvailability = false with no time slots and no error,
\* whatever else the page holds.
C16_AbsentDateIsFalse ==
  (Detected /\ DateNotInHeader)
    => /\ ~returned.value.hasAvailability
       /\ returned.value.timeSlots = <<>>
       /\ returned.value.error = NoError

\* the first header cell with the requested date, counted from 1; 0 if none
MatchedColumn ==
  IF reqDate = NoDate \/ \A i \in 1..Len(served.html.headers) : ~HeaderMatches(i)
    THEN 0
    ELSE CHOOSE i \in 1..Len(served.html.headers) :
           HeaderMatches(i) /\ \A j \in 1..(i - 1) : ~HeaderMatches(j)

\* the rows of the data region with a time label whose cell in column k holds
\* the open or the limited glyph
OpenRows(k) ==
  {i \in 1..Len(served.html.rows) :
     /\ served.html.rows[i].time # NoTime
     /\ k <= Len(served.html.rows[i].cells)
     /\ served.html.rows[i].cells[k].glyph \in {"open", "limited"}}

\* C17: when the target date is in the header, at column k, timeSlots holds
\* the time labels of exactly the rows whose cell in column k is open or
\* limited, in row order, and hasAvailability says whether there is one; no
\* other column and no closed or empty cell adds a time.
C17_ColumnSlots ==
  (Detected /\ MatchedColumn # 0) =>
    LET open == OpenRows(MatchedColumn)
        slots == returned.value.timeSlots
    IN /\ Len(slots) = Cardinality(open)
       /\ \A i \in open :
            slots[Cardinality({j \in open : j <= i})] = served.html.rows[i].time
       /\ returned.value.hasAvailability <=> open # {}
       /\ returned.value.error = NoError

\* the header is [1/16, 1/15], the only row is 12:00 with column 0 closed and
\* column 1 open: the verdict for 1/15 is (true, [12:00])
C17_Witness ==
  /\ Detected /\ reqDate = 20250115
  /\ served.html.headers = <<[month |-> 1, day |-> 16], [month |-> 1, day |-> 15]>>
  /\ Len(served.html.rows) = 1
  /\ served.html.rows[1].time = 1200
  /\ served.html.rows[1].cells
       = <<[glyph |-> "closed", content |-> TRUE], [glyph |-> "open", content |-> TRUE]>>
  /\ returned.value.hasAvailability
  /\ returned.value.timeSlots = <<1200>>

\* a glyph element after the calendar, outside the data region
OutsideMarker ==
  \E i \in 1..Len(served.html.rest) :
    served.html.rest[i].kind = "glyph"
      /\ served.html.rest[i].glyph \in {"open", "limited"}

OnlyClosed ==
  /\ served.html.container
  /\ \E i \in 1..Len(served.html.rows) : served.html.rows[i].cells # <<>>
  /\ \A i \in 1..Len(served.html.rows) :
       \A k \in 1..Len(served.html.rows[i].cells) :
         served.html.rows[i].cells[k].glyph = "closed"

\* C19: when the data region holds only the closed glyph the verdict is
\* hasAvailability = false, with no target date and with any target date.
C19_OnlyClosedIsFalse ==
  (Detected /\ OnlyClosed) => ~returned.value.hasAvailability

\* element i is the day number of the requested date
IsTargetDay(i) ==
  served.html.rest[i].kind = "day" /\ served.html.rest[i].day = DayOf(reqDate)

\* a marker follows element i before the next day number
MarkerBeforeNextDay(i) ==
  \E j \in (i + 1)..Len(served.html.rest) :
    /\ served.html.rest[j].kind = "glyph"
    /\ served.html.rest[j].glyph \in {"open", "limited"}
    /\ \A m \in (i + 1)..(j - 1) : served.html.rest[m].kind # "day"

\* the same, with the marker less than Window characters after the day number
MarkerNearBeforeNextDay(i) ==
  \E j \in (i + 1)..Len(served.html.rest) :
    /\ served.html.rest[j].kind = "glyph"
    /\ served.html.rest[j].glyph \in {"open", "limited"}
    /\ \A m \in (i + 1)..(j - 1) : served.html.rest[m].kind # "day"
    /\ Chars(served.html.rest, i, j) < Window

\* a page without date header asked about a date
GenericCase == Detected /\ reqDate # NoDate /\ served.html.headers = <<>>

\* C20 as stated: on a page without date header the verdict is true when the
\* day number of the target date is followed by the open or the limited glyph
\* before the next day number, and false when it is not or does not occur.
C20_GenericDay ==
  GenericCase =>
    (returned.value.hasAvailability
       <=> \E i \in 1..Len(served.html.rest) : IsTargetDay(i) /\ MarkerBeforeNextDay(i))

\* C20 as the code has it: the glyph must also stand within the Window
\* characters that follow the day number.
C20_GenericDayInWindow ==
  GenericCase =>
    /\ returned.value.hasAvailability
         <=> \E i \in 1..Len(served.html.rest) :
               IsTargetDay(i) /\ MarkerNearBeforeNextDay(i)
    /\ returned.value.timeSlots = <<>>

\* the day number is followed by an open glyph with no day number between,
\* but more than Window characters later: the verdict is false
C20_Witness ==
  /\ GenericCase
  /\ \E i \in 1..Len(served.html.rest) : IsTargetDay(i) /\ MarkerBeforeNextDay(i)
  /\ ~returned.value.hasAvailability

\* the dates that a header cell of the served page shows
HeaderDates ==
  {d \in Dates : findDateColumnIndex(served.html, MonthOf(d), DayOf(d)) # -1}

\* C34: on a page with a date header and a data region, the detector without
\* a target date reports availability exactly when the detector with a target
\* date does for at least one date of the header.
C34_DetectorsAgree ==
  (Detected /\ reqDate = NoDate /\ served.html.headers # <<>> /\ served.html.container)
    => (returned.value.hasAvailability
          <=> \E d \in HeaderDates :
                detectAvailabilityWithSlots(served.html, d).hasAvailability)

\* ---- who writes which document ----------------------------------------------
\* the step is taken by invocation c of watchScheduler
CycleStep(c) == cycle'[c] # cycle[c]

\* the step is the state write of invocation c (step 6)
StateWrite(c) ==
  /\ cycle[c].pc = "updateWatchState"
  /\ cycle'[c].writes = cycle[c].writes + 1

\* C22: no step of a watch cycle writes watch/config or line/target, and
\* watch/state changes only in the state write of a watch cycle, so never in
\* a command.
C22_DocumentOwnership ==
  [][ /\ (\E c \in Cycles : CycleStep(c))
           => (watchConfig' = watchConfig /\ lineTarget' = lineTarget)
      /\ (watchState' # watchState) => (\E c \in Cycles : StateWrite(c)) ]_vars

\* a cycle has written watch/state, and commands have disabled monitoring
\* and changed the date set that the cycle evaluated
C22_Witness ==
  /\ watchState.exists
  /\ last.done
  /\ ~watchConfig.enabled
  /\ Range(watchConfig.targetDates) # Range(last.dates)

\* ---- the order of the steps of one invocation ------------------------------
Rank(pc) ==
  CASE pc = "idle" -> 0
    [] pc = "getWatchConfig" -> 1
    [] pc = "getWatchState" -> 2
    [] pc = "getLineTarget" -> 3
    [] pc \in {"fetchDate", "fetchAll"} -> 4
    [] pc = "pushMessage" -> 5
    [] pc = "updateWatchState" -> 6

\* C24: within one invocation the enabled gate, the interval gate and the
\* recipient gate are taken in this order and none is skipped; the page is
\* fetched only after the three gates; the notification attempt comes after
\* the last fetch and is followed by the state write; the state write happens
\* at most once and the invocation returns with it.
C24_StepOrder ==
  [][ \A c \in Cycles :
        LET rec == cycle[c]
            next == cycle'[c]
        IN CycleStep(c) =>
             /\ (rec.pc = "idle") => (next.pc = "getWatchConfig")
             /\ (Rank(rec.pc) \in 1..3)
                   => (next.pc = "idle" \/ Rank(next.pc) = Rank(rec.pc) + 1)
             /\ (Rank(rec.pc) = 4)
                   => (next.pc = "idle" \/ Rank(next.pc) >= 4)
             /\ (rec.pc = "pushMessage") => (next.pc = "updateWatchState")
             /\ (rec.pc = "updateWatchState") => (next.pc = "idle")
             /\ (rec.pc # "idle" /\ next.fetches # rec.fetches)
                   => (Rank(rec.pc) = 4 /\ rec.pushes = 0 /\ rec.writes = 0)
             /\ (rec.pc # "idle" /\ next.pushes # rec.pushes)
                   => (rec.pc = "pushMessage" /\ rec.fetches > 0 /\ rec.writes = 0)
             /\ (rec.pc # "idle" /\ next.writes # rec.writes)
                   => /\ rec.pc = "updateWatchState"
                      /\ rec.writes = 0
                      /\ rec.fetches > 0
                      /\ next.pc = "idle"
             /\ (watchState' # watchState) => (rec.pc = "updateWatchState") ]_vars

\* an invocation has passed the gates, fetched, attempted a notification,
\* written watch/state and returned
C24_Witness ==
  \E c \in Cycles :
    /\ cycle[c].exit = "completed"
    /\ cycle[c].fetches > 0
    /\ cycle[c].pushes = 1
    /\ cycle[c].writes = 1

\* ---- cycles whose fetches all failed -----------------------------------------
\* every fetch of the invocation ended in a fetch error
NoFetchSucceeded(c) ==
  /\ cycle[c].results # <<>>
  /\ \A i \in 1..Len(cycle[c].results) : cycle[c].results[i].error

\* C26: the state write of a cycle in which no fetch succeeded leaves the
\* stored hasAvailability as it was, with and without a date filter.
C26_FailedCycleKeepsHas ==
  [][ \A c \in Cycles :
        (StateWrite(c) /\ NoFetchSucceeded(c))
          => ((watchState'.exists /\ watchState'.has) = StoredHas) ]_vars

\* ---- one LINE event on its own (processEvent) ---------------------------------
\* The text of a message is the sequence of its words.  A word is a date
\* ("1/15"), the remove keyword followed by white space ("remove") or by the
\* next word directly ("removeGlued"), the interval keyword, a number ("5"), a
\* number of minutes ("5分"), one of the one-word commands, or anything else.
MaxWords == 3

IntervalInputs == (0..MaxInterval) \cup {60, 61}

CommandWords == {"register", "on", "off", "clear", "status", "help"}

Words ==
  {[kind |-> "date", value |-> d] : d \in Dates}
    \cup {[kind |-> k, value |-> 0] :
            k \in {"remove", "removeGlued", "interval", "junk"} \cup CommandWords}
    \cup {[kind |-> k, value |-> n] : k \in {"number", "minutes"}, n \in IntervalInputs}

\* The texts of at most MaxWords words.  In a text of several words a command
\* word or a number of minutes reads like any other word that is no date, so
\* the first word is a keyword, a date or another word, and the words after
\* it are dates, other words, or a number after the interval keyword.  A
\* glued keyword has a word after it.
Texts ==
  {t \in SeqsUpTo(Words, MaxWords) :
     /\ Len(t) >= 2
          => t[1].kind \in {"remove", "removeGlued", "interval", "date", "junk"}
     /\ \A i \in 2..Len(t) :
          \/ t[i].kind \in {"date", "junk"}
          \/ t[i].kind = "number" /\ t[i - 1].kind = "interval"
     /\ \A i \in 1..Len(t) : t[i].kind = "removeGlued" => i < Len(t)}

\* new Date().getFullYear()
CurrentYear == 2025

\* the year a date word writes, 0 when it writes month and day only
YearOf(value) == value \div 10000

\* parseDate: null unless the input is one word of digits in one of the four
\* formats (M/D, YYYY/M/D, M-D, YYYY-M-D: a date word, whose value holds the
\* numbers written) with month >= 1 && month <= 12 && day >= 1 && day <= 31;
\* then `${year}-${month padded}-${day padded}`, the year being the current
\* one when none is written
parseDate(input) ==
  IF Len(input) # 1 \/ input[1].kind # "date" THEN NoDate
  ELSE LET year == YearOf(input[1].value)
           month == MonthOf(input[1].value)
           day == DayOf(input[1].value)
       IN IF month >= 1 /\ month <= 12 /\ day >= 1 /\ day <= 31
            THEN (IF year = 0 THEN CurrentYear ELSE year) * 10000 + month * 100 + day
            ELSE NoDate

\* input.split(/[\s,、　]+/): a keyword glued to the next word is one part with
\* it, and that part reads as no date
RECURSIVE Split(_)
Split(input) ==
  IF input = <<>> THEN <<>>
  ELSE IF Head(input).kind = "removeGlued" /\ Len(input) > 1
    THEN <<[kind |-> "junk", value |-> 0]>> \o Split(Tail(Tail(input)))
    ELSE <<Head(input)>> \o Split(Tail(input))

RECURSIVE PushDates(_, _)
PushDates(dates, parts) ==
  IF parts = <<>> THEN dates
  ELSE LET parsed == parseDate(<<Head(parts)>>)
       IN PushDates(IF parsed # NoDate /\ ~Contains(dates, parsed)
                      THEN Append(dates, parsed) ELSE dates,
                    Tail(parts))

parseMultipleDates(input) == Sort(PushDates(<<>>, Split(input)))

\* /^(?:間隔\s*|interval\s*)(\d+)$|^(\d+)分$/i
IntervalMatch(text) ==
  \/ Len(text) = 2 /\ text[1].kind = "interval" /\ text[2].kind = "number"
  \/ Len(text) = 1 /\ text[1].kind = "minutes"

\* parseInt(intervalMatch[1] || intervalMatch[2], 10)
MinutesOf(text) == text[Len(text)].value

\* every number is taken as the interval
ValidInterval_Any(minutes) == TRUE

\* minutes >= 1 && minutes <= 60
ValidInterval(minutes) == minutes >= 1 /\ minutes <= 60

\* /^削除\s*(.+)$/
RemoveMatch(text) ==
  /\ Len(text) >= 2
  /\ text[1].kind \in {"remove", "removeGlued"}

Replied(target, config, answer) ==
  [target |-> target, config |-> config, reply |-> answer]

\* switch (text)
Dispatch(text, target, config) ==
  LET word == IF Len(text) = 1 THEN text[1].kind ELSE "junk"
  IN CASE word = "register" ->
            Replied(setLineTarget("U1"), ensureWatchConfig(config), "registered")
       [] word = "on" -> Replied(target, setWatchEnabled(config, TRUE), "enabled")
       [] word = "off" -> Replied(target, setWatchEnabled(config, FALSE), "disabled")
       [] word = "clear" -> Replied(target, clearTargetDates(config), "cleared")
       [] word = "status" -> Replied(target, config, "status")
       [] word = "help" -> Replied(target, config, "help")
       [] OTHER -> Replied(target, config, "unrecognized")

\* the try block of processEvent for a text message of a known user
processEvent(text, target, config) ==
  IF IntervalMatch(text)
    THEN IF ValidInterval(MinutesOf(text))
           THEN Replied(target, setIntervalMinutes(config, MinutesOf(text)),
                        "intervalSet")
           ELSE Replied(target, config, "intervalRange")
  ELSE IF RemoveMatch(text) /\ parseDate(Tail(text)) # NoDate
    THEN LET parsedDate == parseDate(Tail(text))
         IN Replied(target, removeTargetDate(config, parsedDate),
                    IF Contains(config.targetDates, parsedDate)
                      THEN "removed" ELSE "notMonitored")
  ELSE LET parsedDates == parseMultipleDates(text)
       IN IF Len(parsedDates) > 0
            THEN Replied(target, addTargetDates(config, parsedDates), "added")
            ELSE Dispatch(text, target, config)

InitCommands ==
  /\ now = 1
  /\ lineTarget = NoTarget
  /\ watchConfig = NoConfig
  /\ watchState = NoState
  /\ cycle = [c \in Cycles |-> IdleCycle]
  /\ last = NoLast
  /\ periodAttempts = 0
  /\ NothingRun
  /\ reqDate = NoDate
  /\ served = Response("ok", EmptyMarkup)
  /\ returned = Pending

ProcessEvent ==
  \E text \in Texts :
    LET done == processEvent(text, lineTarget, watchConfig)
    IN /\ msg' = text
       /\ reply' = done.reply
       /\ lineTarget' = done.target
       /\ watchConfig' = done.config
       /\ UNCHANGED <<callVars, repeatVars, poll, req, res, now, watchState, cycle,
                      last, periodAttempts>>

NextCommands == ProcessEvent

SpecCommands == InitCommands /\ [][NextCommands]_vars

\* C23: a stored intervalMinutes is an integer from 1 to 60; an interval
\* command with a value outside 1..60 changes no document and is answered with
\* the range error; registration on an empty store stores the default 2; and
\* the interval a cycle takes from a configuration without the field is 2.
C23_IntervalInRange ==
  [][ /\ watchConfig'.intervalMinutes # 0 => watchConfig'.intervalMinutes \in 1..60
      /\ (IntervalMatch(msg') /\ MinutesOf(msg') \notin 1..60)
           => /\ watchConfig' = watchConfig
              /\ lineTarget' = lineTarget
              /\ reply' = "intervalRange"
      /\ (msg' = <<[kind |-> "register", value |-> 0]>> /\ ~watchConfig.exists)
           => watchConfig'.intervalMinutes = 2
      /\ IntervalOf(watchConfig') \in 1..60
      /\ watchConfig'.intervalMinutes = 0 => IntervalOf(watchConfig') = 2 ]_vars

\* an interval of 60 is stored and a command asking for 61 has been refused
C23_Witness ==
  /\ watchConfig.intervalMinutes = 60
  /\ IntervalMatch(msg) /\ MinutesOf(msg) = 61
  /\ reply = "intervalRange"

\* C30: a message that begins with the remove keyword adds no date: the
\* configured dates after it are among the configured dates before it.
C30_RemoveNeverAdds ==
  [][ (msg' # <<>> /\ msg'[1].kind \in {"remove", "removeGlued"})
        => Range(watchConfig'.targetDates) \subseteq Range(watchConfig.targetDates) ]_vars

\* the message is this one-word command
IsCommand(text, word) == text = <<[kind |-> word, value |-> 0]>>

\* the document the registration command creates
DefaultConfig ==
  [exists |-> TRUE, enabled |-> FALSE, intervalMinutes |-> 2, targetDates |-> <<>>]

\* C31: "on" and "off" change only enabled, and an interval command changes
\* only intervalMinutes, each leaving targetDates and the other field as they
\* were; the registration command creates the default configuration (enabled
\* false, intervalMinutes 2) when there is none and leaves an existing one as
\* it is.
C31_CommandsKeepOtherFields ==
  [][ /\ (IsCommand(msg', "on") \/ IsCommand(msg', "off"))
           => /\ watchConfig'.enabled = IsCommand(msg', "on")
              /\ watchConfig'.intervalMinutes = watchConfig.intervalMinutes
              /\ watchConfig'.targetDates = watchConfig.targetDates
      /\ IntervalMatch(msg')
           => /\ watchConfig'.enabled = watchConfig.enabled
              /\ watchConfig'.targetDates = watchConfig.targetDates
              /\ watchConfig'.intervalMinutes
                   \in {watchConfig.intervalMinutes, MinutesOf(msg')}
      /\ IsCommand(msg', "register")
           => watchConfig' = IF watchConfig.exists THEN watchConfig
                             ELSE DefaultConfig ]_vars

\* the registration command has run over a configuration that monitoring on,
\* an interval command and a date command had written, and it is still there
C31_Witness ==
  /\ IsCommand(msg, "register")
  /\ reply = "registered"
  /\ watchConfig.enabled
  /\ watchConfig.intervalMinutes = 60
  /\ watchConfig.targetDates # <<>>

\* ---- date messages, whatever numbers they write ---------------------------------
\* the longest list of dates that is followed
MaxDates == 2

\* months and days around the ends of their ranges, the year written or not
DateWords ==
  {[kind |-> "date", value |-> year * 10000 + month * 100 + day] :
     year \in {0, 2024}, month \in {2, 4, 13}, day \in {0, 29, 30, 31, 32}}

\* a message that is one date word, sent while the list is short
ProcessDateEvent ==
  /\ Len(watchConfig.targetDates) < MaxDates
  /\ \E word \in DateWords :
       LET done == processEvent(<<word>>, lineTarget, watchConfig)
       IN /\ msg' = <<word>>
          /\ reply' = done.reply
          /\ lineTarget' = done.target
          /\ watchConfig' = done.config
  /\ UNCHANGED <<callVars, repeatVars, poll, req, res, now, watchState, cycle,
                 last, periodAttempts>>

NextDates == ProcessDateEvent

SpecDates == InitCommands /\ [][NextDates]_vars

\* the Gregorian calendar
LeapYear(year) == year % 4 = 0 /\ (year % 100 # 0 \/ year % 400 = 0)

DaysInMonth(year, month) ==
  IF month \in {4, 6, 9, 11} THEN 30
  ELSE IF month = 2 THEN (IF LeapYear(year) THEN 29 ELSE 28)
  ELSE 31

\* year, month and day are those of a day of the calendar
RealDate(date) ==
  /\ MonthOf(date) \in 1..12
  /\ DayOf(date) \in 1..DaysInMonth(YearOf(date), MonthOf(date))

\* C37: a date message is taken as a date only when it names a day of the
\* calendar, the year being the current one when none is written, and every
\* date in targetDates is a day of the calendar.
C37_OnlyRealDates ==
  /\ msg # <<>> =>
       (reply = "added"
          <=> RealDate(IF YearOf(msg[1].value) = 0
                         THEN CurrentYear * 10000 + msg[1].value
                         ELSE msg[1].value))
  /\ \A i \in 1..Len(watchConfig.targetDates) : RealDate(watchConfig.targetDates[i])

\* ---- one webhook request on its own (lineWebhook) ------------------------------
\* A request has a method, an X-Line-Signature header and a body, which holds
\* a list of events.  The header is absent, or sent twice (the host then hands
\* it over as an array), or a string: every string as long as a digest, and
\* every shorter one, and every one that is one character longer.
MaxEvents == 2

SignatureChars == {0, 1}

WebhookEvents ==
  {[type |-> "follow", text |-> <<>>]}
    \cup {[type |-> "message", text |-> <<word>>] :
            word \in {[kind |-> "register", value |-> 0], [kind |-> "on", value |-> 0]}}

\* createHmac("sha256", channelSecret).update(body).digest("base64"): a string
\* of one fixed length that the body determines
Hmac(body) ==
  <<Len(body) % 2, Cardinality({i \in 1..Len(body) : body[i].type = "message"}) % 2>>

SignatureHeaders ==
  {[kind |-> k, value |-> <<>>] : k \in {"absent", "array"}}
    \cup {[kind |-> "string", value |-> v] :
            v \in SeqsUpTo(SignatureChars, Len(Hmac(<<>>)) + 1)}

Requests ==
  {[method |-> m, signature |-> h, events |-> e] :
     m \in {"POST", "GET"}, h \in SignatureHeaders, e \in SeqsUpTo(WebhookEvents, MaxEvents)}

\* crypto.timingSafeEqual: throws on buffers of different lengths
timingSafeEqual(a, b) ==
  IF Len(a) # Len(b) THEN "threw" ELSE IF a = b THEN "true" ELSE "false"

verifySignature(signature, body) == timingSafeEqual(Hmac(body), signature)

\* the catch clause logs and goes on to the events
Unauthorized_ThrowPasses(request) ==
  \/ request.signature.kind # "string"
  \/ verifySignature(request.signature.value, request.events) = "false"

\* typeof signature !== "string", or verifySignature returns false, or it
\* throws: each ends the request with 401
Unauthorized(request) ==
  \/ request.signature.kind # "string"
  \/ verifySignature(request.signature.value, request.events) = "false"
  \/ verifySignature(request.signature.value, request.events) = "threw"

\* for (const event of events) await processEvent(event, accessToken): an event
\* that is no text message is ignored, a text message is answered
RECURSIVE ProcessEvents(_, _)
ProcessEvents(store, events) ==
  IF events = <<>> THEN store
  ELSE IF Head(events).type # "message" THEN ProcessEvents(store, Tail(events))
  ELSE LET done == processEvent(Head(events).text, store.target, store.config)
       IN ProcessEvents([target |-> done.target, config |-> done.config,
                         replies |-> store.replies + 1], Tail(events))

Responded(status, store) ==
  [status |-> status, target |-> store.target, config |-> store.config,
   replies |-> store.replies]

lineWebhook(request, target, config) ==
  LET store == [target |-> target, config |-> config, replies |-> 0]
  IN IF request.method # "POST" THEN Responded("405", store)
     ELSE IF Unauthorized(request) THEN Responded("401", store)
     ELSE Responded("200", ProcessEvents(store, request.events))

LineWebhook ==
  \E request \in Requests :
    LET done == lineWebhook(request, lineTarget, watchConfig)
    IN /\ req' = request
       /\ res' = [status |-> done.status, replies |-> done.replies]
       /\ lineTarget' = done.target
       /\ watchConfig' = done.config
       /\ UNCHANGED <<callVars, repeatVars, poll, msg, reply, now, watchState, cycle,
                      last, periodAttempts>>

NextWebhook == LineWebhook

SpecWebhook == InitCommands /\ [][NextWebhook]_vars

\* the header is no string, or it is not the digest of the body
BadSignature(request) ==
  \/ request.signature.kind # "string"
  \/ request.signature.value # Hmac(request.events)

\* C32: a POST whose signature header is missing, is no string, has the wrong
\* length or differs from the digest of the body is answered with 401: no
\* event of it is processed, so line/target, watch/config and watch/state stay
\* as they were and no reply is sent.
C32_BadSignatureRejected ==
  [][ (req'.method = "POST" /\ BadSignature(req'))
        => /\ res'.status = "401"
           /\ res'.replies = 0
           /\ lineTarget' = lineTarget
           /\ watchConfig' = watchConfig
           /\ watchState' = watchState ]_vars

\* After a user registered, a POST with a signature of the wrong length and a
\* registration event was answered with 401.
C32_Witness ==
  /\ req.method = "POST"
  /\ req.signature.kind = "string"
  /\ Len(req.signature.value) # Len(Hmac(req.events))
  /\ \E i \in 1..Len(req.events) : req.events[i].type = "message"
  /\ res.status = "401"
  /\ lineTarget.exists

\* ---- repeated calls of the detector ----------------------------------------------
\* Of all the patterns of the detector only the two day patterns of
\* checkDayAvailabilityGeneric are matched with exec, which reads and writes the
\* lastIndex of the pattern object; the others go through String.match and
\* matchAll, which start from 0.  The second day pattern matches where the
\* first does and a call reaches it only when the first found no marker, so
\* one lastIndex is followed.
MaxRepeat == 2

\* one pattern object is kept across the calls, with the lastIndex it was left with
dayPattern_Shared(left) == left

\* new RegExp(`>${dayStr}<`, "g") in every call: lastIndex 0, whatever the
\* pattern of an earlier call was left with
dayPattern(left) == 0

\* while ((match = dayPattern.exec(html)) !== null): the occurrences of >day<
\* after lastIndex, in order; the loop returns at the first with a marker in
\* its context and leaves lastIndex there, or runs out and leaves it at 0
ExecLoop(html, day, start) ==
  LET hit(i) ==
        /\ html.rest[i].kind = "day" /\ html.rest[i].day = day
        /\ \E j \in (i + 1)..Len(html.rest) :
             /\ html.rest[j].kind = "glyph" /\ IsMarker(html.rest[j].glyph)
             /\ \A m \in (i + 1)..(j - 1) : html.rest[m].kind # "day"
             /\ Chars(html.rest, i, j) < Window
      hits == {i \in (start + 1)..Len(html.rest) : hit(i)}
  IN IF hits = {} THEN [found |-> FALSE, lastIndex |-> 0]
     ELSE [found |-> TRUE, lastIndex |-> CHOOSE i \in hits : \A j \in hits : i <= j]

\* one call of detectAvailabilityWithSlots, with the pattern state it meets and
\* the one it leaves
detectCall(html, targetDate, left) ==
  LET verdict == detectAvailabilityWithSlots(html, targetDate)
      generic ==
        /\ targetDate # NoDate
        /\ findDateColumnIndex(html, MonthOf(targetDate), DayOf(targetDate)) = -1
      loop == ExecLoop(html, DayOf(targetDate), dayPattern(left))
  IN IF generic
       THEN [hasAvailability |-> loop.found, timeSlots |-> <<>>,
             left |-> left, right |-> loop.lastIndex]
       ELSE [hasAvailability |-> verdict.hasAvailability,
             timeSlots |-> verdict.timeSlots, left |-> left, right |-> left]

InitRepeat ==
  /\ now = 1
  /\ lineTarget = NoTarget
  /\ watchConfig = NoConfig
  /\ watchState = NoState
  /\ cycle = [c \in Cycles |-> IdleCycle]
  /\ last = NoLast
  /\ periodAttempts = 0
  /\ NothingRun
  \* every page with at most MaxRepeat header cells, rows, cells and elements
  /\ \/ \E h \in SeqsUpTo(Labels, MaxRepeat) :
          \E t \in SeqsUpTo(Tokens, MaxRepeat - Len(h)) :
            served = Response("ok", Page(h, FALSE, <<>>, t))
     \/ \E r \in RowSeqs(MaxRepeat) :
          \E h \in SeqsUpTo(Labels, MaxRepeat - Weight(r)) :
            \E t \in SeqsUpTo(Tokens, MaxRepeat - Weight(r) - Len(h)) :
              served = Response("ok", Page(h, TRUE, r, t))
  /\ reqDate \in {NoDate} \cup Dates
  /\ returned = Pending

\* a call on the page and date under test
Detect ==
  /\ Len(calls) < 2
  /\ LET done == detectCall(served.html, reqDate, lastIndex)
     IN /\ calls' = Append(calls, done)
        /\ lastIndex' = done.right
  /\ UNCHANGED <<callVars, eventVars, poll, now, lineTarget, watchConfig,
                 watchState, cycle, last, periodAttempts>>

\* another page: k elements of other markup, then, when it shows the day at
\* all, the day number followed by an open slot, which the day patterns find
\* at element k + 1
OtherPage(k, shown, day) ==
  Page(<<>>, FALSE, <<>>,
       [i \in 1..k |-> [kind |-> "pad", day |-> 0, glyph |-> "none", len |-> Window]]
         \o (IF shown
               THEN <<[kind |-> "day", day |-> day, glyph |-> "none", len |-> 13],
                      [kind |-> "glyph", day |-> 0, glyph |-> "open", len |-> 14]>>
               ELSE <<>>))

\* a call on another page and date
DetectOther ==
  /\ \E k \in 0..MaxRepeat : \E shown \in BOOLEAN : \E d \in Dates :
       lastIndex' = detectCall(OtherPage(k, shown, DayOf(d)), d, lastIndex).right
  /\ UNCHANGED <<callVars, eventVars, poll, calls, now, lineTarget, watchConfig,
                 watchState, cycle, last, periodAttempts>>

NextRepeat == Detect \/ DetectOther

SpecRepeat == InitRepeat /\ [][NextRepeat]_vars

Verdict(call) ==
  [hasAvailability |-> call.hasAvailability, timeSlots |-> call.timeSlots]

\* C21: every call of the detector on the same markup and the same target date
\* returns the same hasAvailability and the same timeSlots, the ones the
\* markup and the date determine, whatever calls were made before it.
C21_Deterministic ==
  \A i \in 1..Len(calls) :
    /\ Verdict(calls[i]) = Verdict(calls[1])
    /\ Verdict(calls[i]) = detectAvailabilityWithSlots(served.html, reqDate)

\* two calls through the day patterns that found a marker, the second made
\* after a call on another page had left its own lastIndex
C21_Witness ==
  /\ Len(calls) = 2
  /\ calls[1].hasAvailability
  /\ calls[1].right # 0
  /\ calls[2].left # calls[1].right

\* ---- invocations that do not overlap, each taken as one step -------------------
\* The pages served to these invocations: a calendar with one header cell
\* and one row of one slot cell, open or closed.
PollPages ==
  {Page(<<h>>, TRUE,
        <<[time |-> 1200, cells |-> <<[glyph |-> g, content |-> TRUE]>>]>>, <<>>) :
     h \in Labels, g \in {"open", "closed"}}

PollResponses ==
  {Response("rejected", EmptyMarkup)} \cup {Response("ok", page) : page \in PollPages}

\* what watchScheduler reads of a CheckAvailabilityResult: if (result.error),
\* result.hasAvailability, result.timeSlots.  (Here and below a value that is
\* read several times is bound once, as the element of a singleton.)
Answer(response, targetDate) ==
  CHOOSE result \in
    {[error |-> value.error # NoError, hasAvailability |-> value.hasAvailability,
      timeSlots |-> value.timeSlots] :
       value \in {checkAvailabilityOn(response, targetDate).value}} : TRUE

\* the dates checkAvailability is called with: the configured ones, or none
Keys(config) ==
  IF config.targetDates = <<>> THEN {NoDate} ELSE Range(config.targetDates)

\* the orders in which a set of dates can be stored
Orders(dates) ==
  {s \in [1..Cardinality(dates) -> dates] :
     \A i, j \in 1..Len(s) : i # j => s[i] # s[j]}

\* one iteration of the loop: the body, then on to the next date
Iterate(rec, targetDate, result) ==
  [LoopBody(rec, targetDate, result) EXCEPT
     !.idx = NextIndex(@, result), !.fetches = @ + 1,
     !.results = Append(@, [date |-> targetDate, error |-> result.error,
                            hasAvailability |-> result.hasAvailability])]

\* for (const targetDate of targetDates), from rec.idx on
RECURSIVE Loop(_, _)
Loop(rec, responses) ==
  IF rec.idx > Len(rec.targetDates) THEN rec
  ELSE CHOOSE looped \in
         {Loop(next, responses) :
            next \in {Iterate(rec, rec.targetDates[rec.idx], result) :
                        result \in {Answer(responses[rec.targetDates[rec.idx]],
                                           rec.targetDates[rec.idx])}}} : TRUE

\* steps 4 to 6 of an invocation that has the merged verdict
Finish(rec, state, t) ==
  CHOOSE done \in
    {[exit |-> "completed", fetches |-> decided.fetches,
      merged |-> decided.hasAvailability, slots |-> decided.availableSlotsMap,
      notify |-> decided.shouldNotify,
      pushes |-> IF decided.shouldNotify THEN 1 ELSE 0,
      message |-> IF decided.shouldNotify THEN Message(decided.availableSlotsMap)
                  ELSE NoMessage,
      state |-> updateWatchState(state, decided.hasAvailability,
                                 decided.shouldNotify, t)] :
       decided \in {Decide(rec)}} : TRUE

\* an invocation that returns before step 4
Return(why, fetches, state) ==
  [exit |-> why, fetches |-> fetches, merged |-> FALSE, slots |-> <<>>,
   notify |-> FALSE, pushes |-> 0, message |-> NoMessage, state |-> state]

\* the invocation from step 3 on
Fetches(rec, state, startTime, responses) ==
  IF Len(rec.targetDates) > 0
    THEN CHOOSE done \in
           {Finish(looped, state, startTime) :
              looped \in {Loop(rec, responses)}} : TRUE
    ELSE CHOOSE done \in
           {IF NoFilterAbort(result) THEN Return("fetcherror", 1, state)
            ELSE Finish([rec EXCEPT !.fetches = 1,
                                    !.hasAvailability = result.hasAvailability],
                        state, startTime) :
              result \in {Answer(responses[NoDate], NoDate)}} : TRUE

\* The whole of one invocation that starts at startTime and runs alone, the
\* fetch for each date answered by responses: why it returns, what it fetched,
\* decided and pushed, and watch/state after it.
watchCycle(config, state, target, startTime, responses) ==
  IF MonitoringDisabled(config) THEN Return("disabled", 0, state)
  ELSE IF IntervalNotReached(state, startTime, IntervalOf(config))
    THEN Return("interval", 0, state)
  ELSE IF NoRecipient(target) THEN Return("norecipient", 0, state)
  ELSE CHOOSE done \in
         {Fetches(rec, state, startTime, responses) :
            rec \in {[IdleCycle EXCEPT !.startTime = startTime,
                                       !.intervalMinutes = IntervalOf(config),
                                       !.targetDates = config.targetDates,
                                       !.state = state]}} : TRUE

\* time goes on until every interval has run out and one more minute has passed
Horizon == 1 + UnitsPerMinute * (MaxInterval + 1)

Elapse ==
  /\ now < Horizon
  /\ now' = now + 1
  /\ UNCHANGED <<callVars, eventVars, repeatVars, poll, lineTarget, watchConfig,
                 watchState, cycle, last, periodAttempts>>

\* schedule: "every 1 minutes": the timer fires, a minute or more after it last
\* did, and the invocation runs to its end
Run(responses) ==
  /\ poll.startedAt = 0 \/ now >= poll.startedAt + UnitsPerMinute
  /\ \E done \in {watchCycle(watchConfig, watchState, lineTarget, now, responses)} :
     LET dates == watchConfig.targetDates
         asked == IF dates = <<>>
                    THEN <<[date |-> NoDate, response |-> responses[NoDate]] >>
                    ELSE [i \in 1..Len(dates) |->
                            [date |-> dates[i], response |-> responses[dates[i]]]]
     IN /\ watchState' = done.state
        /\ poll' = [exit |-> done.exit, startedAt |-> now, before |-> watchState,
                    asked |-> IF done.fetches > 0 THEN asked ELSE <<>>,
                    merged |-> done.merged, slots |-> done.slots,
                    notify |-> done.notify, pushes |-> done.pushes,
                    message |-> done.message,
                    faultAt |-> "none", retry |-> 0,
                    contactAt |-> IF done.fetches > 0 THEN now ELSE poll.contactAt,
                    prevContactAt |-> IF done.fetches > 0 THEN poll.contactAt
                                      ELSE poll.prevContactAt]
  /\ UNCHANGED <<callVars, eventVars, repeatVars, now, lineTarget, watchConfig,
                 cycle, last, periodAttempts>>

RunCycle == \E responses \in [Keys(watchConfig) -> PollResponses] : Run(responses)

\* The store after registration, "monitoring on" and the date and interval
\* commands, in any order of the dates; no cycle has run.
InitPolls ==
  /\ now = 1
  /\ lineTarget = setLineTarget("U1")
  /\ \E minutes \in 1..MaxInterval : \E dates \in SUBSET Dates :
       \E targetDates \in Orders(dates) :
         watchConfig = [exists |-> TRUE, enabled |-> TRUE,
                        intervalMinutes |-> minutes, targetDates |-> targetDates]
  /\ watchState = NoState
  /\ cycle = [c \in Cycles |-> IdleCycle]
  /\ last = NoLast
  /\ periodAttempts = 0
  /\ NothingRun
  /\ reqDate = NoDate
  /\ served = Response("ok", EmptyMarkup)
  /\ returned = Pending

NextPolls == Elapse \/ RunCycle

SpecPolls == InitPolls /\ [][NextPolls]_vars

\* the latest invocation fetched the page, and one before it did
TwoContacts == poll.prevContactAt # 0

\* C25: with the interval unchanged, two successive invocations that fetch the
\* target page are at least intervalMinutes - 0.5 minutes apart, also when the
\* earlier of them ended in a fetch error.
C25_PollsSpaced ==
  TwoContacts
    => 2 * (poll.contactAt - poll.prevContactAt)
         >= UnitsPerMinute * (2 * IntervalOf(watchConfig) - 1)

\* every fetch of the invocation got a calendar whose header row does not hold
\* the date asked for
NotFoundOnly(p) ==
  /\ p.asked # <<>>
  /\ \A i \in 1..Len(p.asked) :
       LET targetDate == p.asked[i].date
           html == p.asked[i].response.html
       IN /\ targetDate # NoDate
          /\ p.asked[i].response.kind = "ok"
          /\ html.headers # <<>>
          /\ findDateColumnIndex(html, MonthOf(targetDate), DayOf(targetDate)) = -1

\* C27: a cycle whose configured dates are all missing from the calendar
\* header it was served does not lower a stored hasAvailability = true to
\* false.
C27_NotFoundKeepsHas ==
  [][ (poll' # poll /\ poll'.exit = "completed" /\ NotFoundOnly(poll') /\ StoredHas)
        => watchState'.has ]_vars

\* availableSlotsMap as the mapping it is, without the order of insertion
Entries(slots) == Range(slots)

\* C29: the merged hasAvailability, the slots of each available date, the
\* notification decision and the state written by a cycle are the same for
\* every order of the configured dates, given the same result for each date.
C29_OrderIndependent ==
  \A responses \in [Keys(watchConfig) -> PollResponses] :
    \A targetDates \in Orders(Range(watchConfig.targetDates)) :
      LET this == watchCycle(watchConfig, watchState, lineTarget, now, responses)
          that == watchCycle([watchConfig EXCEPT !.targetDates = targetDates],
                             watchState, lineTarget, now, responses)
      IN /\ that.exit = this.exit
         /\ that.merged = this.merged
         /\ Entries(that.slots) = Entries(this.slots)
         /\ that.notify = this.notify
         /\ that.pushes = this.pushes
         /\ that.state = this.state

\* a cycle over two dates has run, the first date available and the second
\* not, over a stored hasAvailability = true
C29_Witness ==
  /\ poll.exit = "completed"
  /\ Len(poll.asked) = 2
  /\ Answer(poll.asked[1].response, poll.asked[1].date).hasAvailability
  /\ ~Answer(poll.asked[2].response, poll.asked[2].date).hasAvailability
  /\ poll.merged
  /\ poll.before.has

\* the positions of the dates whose fetch succeeded and showed availability
Available(p) ==
  {i \in 1..Len(p.asked) :
     /\ ~Answer(p.asked[i].response, p.asked[i].date).error
     /\ Answer(p.asked[i].response, p.asked[i].date).hasAvailability}

\* the date an entry of a message names
DateOfEntry(entry) == entry.year * 10000 + entry.month * 100 + entry.day

\* C35: the message of a notification names exactly the configured dates
\* whose fetch in this cycle succeeded with availability, each once and with
\* the time slots its fetch returned; with no date filter it is the generic
\* message.
C35_MessageContent ==
  poll.pushes = 1 =>
    IF poll.asked[1].date = NoDate
      THEN poll.message.kind = "generic"
      ELSE /\ poll.message.kind = "dates"
           /\ Len(poll.message.entries) = Cardinality(Available(poll))
           /\ {DateOfEntry(poll.message.entries[k]) :
                 k \in 1..Len(poll.message.entries)}
                = {poll.asked[i].date : i \in Available(poll)}
           /\ \A k \in 1..Len(poll.message.entries) : \A i \in 1..Len(poll.asked) :
                poll.asked[i].date = DateOfEntry(poll.message.entries[k])
                  => poll.message.entries[k].slots
                       = Answer(poll.asked[i].response, poll.asked[i].date).timeSlots

\* a notification went out for two configured dates of which one was
\* available and the fetch for the other failed
C35_Witness ==
  /\ poll.pushes = 1
  /\ Len(poll.asked) = 2
  /\ Cardinality(Available(poll)) = 1
  /\ \E i \in 1..2 : Answer(poll.asked[i].response, poll.asked[i].date).error
  /\ Len(poll.message.entries) = 1
  /\ poll.message.entries[1].slots # <<>>

\* ---- from the moment every fetch succeeds and shows availability ---------------
\* the responses for which checkAvailability(targetDate) reports availability
AvailableResponses(targetDate) ==
  {r \in PollResponses :
     ~Answer(r, targetDate).error /\ Answer(r, targetDate).hasAvailability}

RunCycleAvailable ==
  \E responses \in [Keys(watchConfig) -> PollResponses] :
    /\ \A k \in Keys(watchConfig) : responses[k] \in AvailableResponses(k)
    /\ Run(responses)

\* Monitoring is on, a recipient is registered, the interval and the dates are
\* any and stay; the stored hasAvailability is false: no cycle has written
\* yet, or one has just written false.
InitLive ==
  /\ now = 1
  /\ lineTarget = setLineTarget("U1")
  /\ \E minutes \in 1..MaxInterval : \E dates \in SUBSET Dates :
       \E targetDates \in Orders(dates) :
         watchConfig = [exists |-> TRUE, enabled |-> TRUE,
                        intervalMinutes |-> minutes, targetDates |-> targetDates]
  /\ watchState \in {NoState, updateWatchState(NoState, FALSE, FALSE, 1)}
  /\ cycle = [c \in Cycles |-> IdleCycle]
  /\ last = NoLast
  /\ periodAttempts = 0
  /\ NothingRun
  /\ reqDate = NoDate
  /\ served = Response("ok", EmptyMarkup)
  /\ returned = Pending

NextLive == Elapse \/ RunCycleAvailable

\* time goes on, and the timer, which is set to every minute, keeps firing
SpecLive ==
  /\ InitLive
  /\ [][NextLive]_vars
  /\ WF_vars(Elapse)
  /\ WF_vars(RunCycleAvailable)

\* a cycle has passed the gates, attempted a notification and written
\* hasAvailability = true
NotifiedAndStored ==
  /\ poll.exit = "completed"
  /\ poll.pushes = 1
  /\ watchState.exists /\ watchState.has

\* C28: from a stored hasAvailability = false, with monitoring on, a recipient
\* registered, the dates fixed, the timer firing as time goes on and every
\* fetch succeeding with availability, some cycle eventually passes the
\* interval gate, attempts a notification and writes hasAvailability = true.
C28_EventuallyNotified == <>NotifiedAndStored

\* such a cycle has run over a stored false that an earlier cycle had written,
\* once the interval since that write had passed
C28_Witness ==
  /\ NotifiedAndStored
  /\ poll.before.exists /\ ~poll.before.has
  /\ poll.startedAt > 1 + UnitsPerMinute

\* ---- the timer firing exactly every minute, cycles that take time ---------------
\* no fetch fails
OkResponses == {r \in PollResponses : r.kind = "ok"}

\* the time from the start of an invocation to its state write: 30 seconds at most
Durations == {d \in 0..UnitsPerMinute : 2 * d <= UnitsPerMinute}

\* the timer fires often enough for two rounds of the longest interval
CadenceHorizon == 1 + UnitsPerMinute * (2 * MaxInterval + 1)

\* The timer fires at `now`; the invocation runs to its end, writing watch/state
\* (Date.now() inside updateWatchState) when duration has passed; the next time
\* the timer fires is one minute after this one.
TimerFires ==
  /\ now < CadenceHorizon
  /\ \E responses \in [Keys(watchConfig) -> OkResponses] : \E duration \in Durations :
       \E done \in {watchCycle(watchConfig, watchState, lineTarget, now, responses)} :
         LET dates == watchConfig.targetDates
             asked == IF dates = <<>>
                        THEN <<[date |-> NoDate, response |-> responses[NoDate]] >>
                        ELSE [i \in 1..Len(dates) |->
                                [date |-> dates[i], response |-> responses[dates[i]]]]
         IN /\ watchState' =
                 IF done.exit = "completed"
                   THEN updateWatchState(watchState, done.merged, done.notify,
                                         now + duration)
                   ELSE done.state
            /\ poll' = [exit |-> done.exit, startedAt |-> now, before |-> watchState,
                        asked |-> IF done.fetches > 0 THEN asked ELSE <<>>,
                        merged |-> done.merged, slots |-> done.slots,
                        notify |-> done.notify, pushes |-> done.pushes,
                        message |-> done.message,
                        faultAt |-> "none", retry |-> 0,
                        contactAt |-> IF done.fetches > 0 THEN now ELSE poll.contactAt,
                        prevContactAt |-> IF done.fetches > 0 THEN poll.contactAt
                                          ELSE poll.prevContactAt]
  /\ now' = now + UnitsPerMinute
  /\ UNCHANGED <<callVars, eventVars, repeatVars, lineTarget, watchConfig, cycle, last,
                 periodAttempts>>

NextCadence == TimerFires

SpecCadence == InitPolls /\ [][NextCadence]_vars

\* the latest invocation fetched the page
Contacted == poll.exit # "none" /\ poll.contactAt = poll.startedAt

\* when the page was last fetched before the latest invocation started, 0 for never
ContactBefore == IF Contacted THEN poll.prevContactAt ELSE poll.contactAt

\* C33: with the timer firing exactly every minute, a fixed intervalMinutes = n,
\* a recipient registered, no fetch error and at most 30 seconds from the start
\* of a cycle to its state write, an invocation fetches the page exactly when
\* none did before or the last one that did started n minutes earlier: every
\* n-th invocation fetches and the n - 1 between are stopped at the interval
\* gate.
C33_EveryNthTick ==
  poll.exit # "none" =>
    /\ Contacted <=>
         \/ ContactBefore = 0
         \/ poll.startedAt - ContactBefore = UnitsPerMinute * IntervalOf(watchConfig)
    /\ ~Contacted => poll.exit = "interval"
    /\ ContactBefore # 0 =>
         poll.startedAt - ContactBefore <= UnitsPerMinute * IntervalOf(watchConfig)

\* with the longest interval, an invocation fetched the page although the
\* state it read had been written after the start of the one that fetched
\* before it, the invocations between them having been stopped at the gate
C33_Witness ==
  /\ Contacted
  /\ IntervalOf(watchConfig) = MaxInterval
  /\ poll.prevContactAt # 0
  /\ poll.before.checkedAt > poll.prevContactAt
  /\ poll.startedAt - poll.prevContactAt = UnitsPerMinute * MaxInterval
  /\ 2 * (poll.startedAt - poll.before.checkedAt) < UnitsPerMinute * 2 * MaxInterval

\* ---- invocations in which a document read or write throws ----------------------
\* retryCount: 0
retryCount == 0

\* the calls of an invocation that can throw: the reads and the write of the
\* documents (checkAvailability returns its errors and a throw of pushMessage
\* is caught where it is called)
FaultPoints == {"getWatchConfig", "getWatchState", "getLineTarget", "updateWatchState"}

\* the fetches are answered with a failure or with a calendar that shows 1/15 open
FaultResponses ==
  {Response("rejected", EmptyMarkup),
   Response("ok", Page(<<[month |-> 1, day |-> 15]>>, TRUE,
                       <<[time |-> 1200,
                          cells |-> <<[glyph |-> "open", content |-> TRUE]>>]>>, <<>>))}

\* catch (err) { logger.error(...); throw err }: the invocation ends with the
\* error of the call that threw
Rethrown(faultAt, done, state) ==
  [exit |-> "threw", faultAt |-> faultAt, fetches |-> done.fetches,
   merged |-> done.merged, slots |-> done.slots, notify |-> done.notify,
   pushes |-> done.pushes, message |-> done.message, state |-> state]

\* no call threw
Unfaulted(done) ==
  [exit |-> done.exit, faultAt |-> "none", fetches |-> done.fetches,
   merged |-> done.merged, slots |-> done.slots, notify |-> done.notify,
   pushes |-> done.pushes, message |-> done.message, state |-> done.state]

\* One invocation in which the call faultAt throws if the invocation comes to
\* it.  A write that throws may or may not have reached the store (written).
watchSchedulerThrowing(faultAt, written, config, state, target, startTime, responses) ==
  IF faultAt = "getWatchConfig" THEN Rethrown(faultAt, Return("threw", 0, state), state)
  ELSE IF MonitoringDisabled(config) THEN Unfaulted(Return("disabled", 0, state))
  ELSE IF faultAt = "getWatchState"
    THEN Rethrown(faultAt, Return("threw", 0, state), state)
  ELSE IF IntervalNotReached(state, startTime, IntervalOf(config))
    THEN Unfaulted(Return("interval", 0, state))
  ELSE IF faultAt = "getLineTarget"
    THEN Rethrown(faultAt, Return("threw", 0, state), state)
  ELSE LET done == watchCycle(config, state, target, startTime, responses)
       IN IF done.exit = "completed" /\ faultAt = "updateWatchState"
            THEN Rethrown(faultAt, done, IF written THEN done.state ELSE state)
            ELSE Unfaulted(done)

\* the host runs a failed invocation once more
Retries_Once(p) == p.exit = "threw" /\ p.retry < 1

\* the host runs a failed invocation again, retryCount times at most
Retries(p) == p.exit = "threw" /\ p.retry < retryCount

\* the timer is due: it has not fired yet, or it last fired a minute ago or more
TimerDue == poll.startedAt = 0 \/ now >= poll.startedAt + UnitsPerMinute

\* The host starts an invocation, because the timer is due or to retry one
\* that failed, and the invocation runs to its end.
Invoke ==
  /\ TimerDue \/ Retries(poll)
  /\ \E responses \in [Keys(watchConfig) -> FaultResponses] :
       \E faultAt \in FaultPoints \cup {"none"} :
         \E written \in IF faultAt = "updateWatchState" THEN BOOLEAN ELSE {FALSE} :
           LET done == watchSchedulerThrowing(faultAt, written, watchConfig, watchState,
                                              lineTarget, now, responses)
               dates == watchConfig.targetDates
               asked == IF dates = <<>>
                          THEN <<[date |-> NoDate, response |-> responses[NoDate]] >>
                          ELSE [i \in 1..Len(dates) |->
                                  [date |-> dates[i], response |-> responses[dates[i]]]]
           IN /\ watchState' = done.state
              /\ poll' = [exit |-> done.exit, startedAt |-> now, before |-> watchState,
                          asked |-> IF done.fetches > 0 THEN asked ELSE <<>>,
                          merged |-> done.merged, slots |-> done.slots,
                          notify |-> done.notify, pushes |-> done.pushes,
                          message |-> done.message,
                          faultAt |-> done.faultAt,
                          retry |-> IF TimerDue THEN 0 ELSE poll.retry + 1,
                          contactAt |-> IF done.fetches > 0 THEN now ELSE poll.contactAt,
                          prevContactAt |-> IF done.fetches > 0 THEN poll.contactAt
                                            ELSE poll.prevContactAt]
  /\ UNCHANGED <<callVars, eventVars, repeatVars, now, lineTarget, watchConfig,
                 cycle, last, periodAttempts>>

NextFaults == Elapse \/ Invoke

SpecFaults == InitPolls /\ [][NextFaults]_vars

\* C36: an invocation in which a document read or write throws ends with that
\* error (it is handed to the host); after such an invocation the next one
\* starts when the timer next fires, a minute later or more, and not before;
\* and when the call that threw comes before the state write, watch/state is
\* what it was.
C36_FaultPropagates ==
  [][ poll' # poll
        => /\ poll'.faultAt # "none" <=> poll'.exit = "threw"
           /\ (poll'.exit = "threw" /\ poll'.faultAt # "updateWatchState")
                => watchState' = watchState
           /\ poll.exit = "threw"
                => poll'.startedAt >= poll.startedAt + UnitsPerMinute ]_vars

\* Reading line/target threw in an invocation that found a state written by
\* an earlier one and had passed the interval gate; watch/state is as it was.
C36_Witness ==
  /\ poll.exit = "threw"
  /\ poll.faultAt = "getLineTarget"
  /\ poll.before.exists
  /\ watchState = poll.before

====
